---- MODULE Spec2Model ----
(***************************************************************************)
(* A model of the incremental workspace crawler (crawlLocalFilesAsync),    *)
(* its content-hash change-detection cache (fileHashCache) and the         *)
(* weighted multi-stage ProgressManager of the agentic-wiki extension.     *)
(***************************************************************************)
EXTENDS Integers, Sequences, FiniteSets, TLC

(***************************************************************************)
(* Bounds of the model.                                                    *)
(***************************************************************************)
\* how many times one run may lower a stage's recorded percentage
MaxLowerings == 1
\* how many times one behaviour calls reset(): one run after the first
MaxResets == 1
\* how many calls of crawlLocalFilesAsync one behaviour holds
MaxCrawls == 2
\* how many anomalies one behaviour holds: a file-system fault, a foreign
\* cache file, an edit or removal of a file, a cancellation
MaxOdd == 1
\* the width of a batch; the code's batchSize is 50, the model scales it down
\* so that a tree of three candidates spans two batches
batchSize == 2

(***************************************************************************)
(* ProgressManager: stages and weights.                                    *)
(***************************************************************************)
ProcessStage ==
    << "Initializing", "Fetching Files", "Identifying Abstractions",
       "Analyzing Relationships", "Ordering Chapters", "Writing Chapters",
       "Combining Tutorial", "Completed" >>

StageSet == { ProcessStage[i] : i \in 1..Len(ProcessStage) }

\* weights in which the last stage counts too
STAGE_WEIGHTS_CompletedCounts ==
    [ s \in StageSet |->
        CASE s = "Initializing" -> 5
          [] s = "Fetching Files" -> 15
          [] s = "Identifying Abstractions" -> 20
          [] s = "Analyzing Relationships" -> 15
          [] s = "Ordering Chapters" -> 10
          [] s = "Writing Chapters" -> 25
          [] s = "Combining Tutorial" -> 10
          [] s = "Completed" -> 10 ]

STAGE_WEIGHTS ==
    [ s \in StageSet |->
        CASE s = "Initializing" -> 5
          [] s = "Fetching Files" -> 15
          [] s = "Identifying Abstractions" -> 20
          [] s = "Analyzing Relationships" -> 15
          [] s = "Ordering Chapters" -> 10
          [] s = "Writing Chapters" -> 25
          [] s = "Combining Tutorial" -> 10
          [] s = "Completed" -> 0 ]

StageIndex(s) == CHOOSE i \in 1..Len(ProcessStage) : ProcessStage[i] = s

\* the percent arguments callers pass: below 0, inside and above 100
Percents == { 0 - 20, 50, 130 }

VARIABLES
    \* ProgressManager fields
    progress,              \* TRUE when a progress sink is attached
    currentStage,
    stageProgress,         \* stage -> recorded percentage
    totalProgress,         \* the aggregate, scaled by TotalWeight (see below)
    lastReportedProgress,  \* same scale as totalProgress
    \* what the sink has received, and the history of the calls since reset
    sumTicks,              \* the sum of the increments the sink received
    started,               \* index of the last stage started since reset, 0 if none
    lowerings,             \* calls since reset that lowered a recorded percentage
    unsunk,                \* an update/complete since reset found no sink
    resets,                \* the number of reset() calls so far
    outOfRange             \* a call since reset passed a percentage outside 0..100

pvars == << progress, currentStage, stageProgress, totalProgress,
            lastReportedProgress, sumTicks, started, lowerings, unsunk,
            resets, outOfRange >>

VARIABLES
    \* the file system under the crawled root
    exists,                \* the entries (files and directories) present
    content,               \* file path -> content
    broken,                \* entries whose fs.stat fails (dangling links)
    denied,                \* files whose readFile, directories whose readdir fails
    \* the hash cache: module state and its two files
    fileHashCachePath,     \* "" until initializeFileHashCachePath has run
    cacheFile,             \* what the real cache path holds
    tmpFile,               \* what the ".tmp" sibling holds
    now,                   \* Date.now()
    call,                  \* the last direct call of a cache function, its result
    \* the caller's cancellation token
    cancelled,
    \* one call of crawlLocalFilesAsync
    crawl,                 \* its parameters, locals and status
    tasks,                 \* the async callbacks of the batch being awaited
    execStatus,            \* FetchRepoNode.exec around the crawl
    \* history
    crawlNo,               \* calls of crawlLocalFilesAsync so far
    outcome,               \* path -> what this crawl did with the candidate
    prev,                  \* what the previous call returned
    odd                    \* anomalies so far (faults, edits, cancellation)

fsvars == << exists, content, broken, denied >>
cachevars == << fileHashCachePath, cacheFile, tmpFile, now, call >>
cvars == << fsvars, cachevars, cancelled, crawl, tasks, execStatus,
            crawlNo, outcome, prev, odd >>

cvarsButExec == << fsvars, cachevars, cancelled, crawl, tasks,
                   crawlNo, outcome, prev, odd >>

vars == << pvars, cvars >>


(***************************************************************************)
(* The aggregate.  The code computes                                       *)
(*   total = SUM (progress/100) * weight,  totalWeight = SUM weight,       *)
(*   totalProgress = (total / totalWeight) * 100                           *)
(* that is (SUM progress * weight) / totalWeight.  The model stores the    *)
(* numerator SUM progress * weight, so the aggregate in percent is         *)
(* totalProgress / TotalWeight and 100 percent is 100 * TotalWeight.       *)
(***************************************************************************)
RECURSIVE WeightedSum(_, _)
WeightedSum(sp, i) ==
    IF i = 0 THEN 0
    ELSE WeightedSum(sp, i - 1) + sp[ProcessStage[i]] * STAGE_WEIGHTS[ProcessStage[i]]

RECURSIVE WeightSum(_)
WeightSum(i) ==
    IF i = 0 THEN 0 ELSE WeightSum(i - 1) + STAGE_WEIGHTS[ProcessStage[i]]

TotalWeight == WeightSum(Len(ProcessStage))

Full == 100 * TotalWeight

\* a loop that stops one weighted stage early
calculateTotalProgress_StopsEarly(sp) == WeightedSum(sp, Len(ProcessStage) - 2)

calculateTotalProgress(sp) == WeightedSum(sp, Len(ProcessStage))

Max(a, b) == IF a >= b THEN a ELSE b

\* reportProgress: the sink, when attached, receives Math.max(0, increment)
reportProgress(increment) ==
    IF progress
    THEN sumTicks' = sumTicks + Max(0, increment)
    ELSE UNCHANGED sumTicks

\* an update that records the percentage as it is given
Clamp_None(percentage) == percentage

\* if (percentage < 0) percentage = 0; if (percentage > 100) percentage = 100
Clamp(percentage) ==
    IF percentage < 0 THEN 0 ELSE IF percentage > 100 THEN 100 ELSE percentage

ZeroProgress == [ s \in StageSet |-> 0 ]

ProgressManagerNew ==
    /\ progress = FALSE
    /\ currentStage = "Initializing"
    /\ stageProgress = ZeroProgress
    /\ totalProgress = 0
    /\ lastReportedProgress = 0
    /\ sumTicks = 0
    /\ started = 0
    /\ lowerings = 0
    /\ unsunk = FALSE
    /\ resets = 0
    /\ outOfRange = FALSE

\* the commands call it once per run, right after reset and before any stage call
setProgressObjects ==
    /\ started = 0 /\ totalProgress = 0 /\ ~unsunk
    /\ progress' = TRUE
    /\ UNCHANGED << currentStage, stageProgress, totalProgress,
                    lastReportedProgress, sumTicks, started, lowerings, unsunk,
                    resets, outOfRange >>
    /\ UNCHANGED cvars

InOrder(stage) == StageIndex(stage) = started + 1

\* startStage: any stage may be started at any time; the percentage of the
\* stage is set to 0 and the aggregate is not recomputed
startStage(stage) ==
    /\ stageProgress[stage] = 0 \/ lowerings < MaxLowerings
    /\ currentStage' = stage
    /\ stageProgress' = [stageProgress EXCEPT ![stage] = 0]
    /\ reportProgress(0)
    /\ started' = StageIndex(stage)
    /\ lowerings' = IF stageProgress[stage] = 0 THEN lowerings ELSE lowerings + 1
    /\ UNCHANGED << progress, totalProgress, lastReportedProgress, unsunk, resets,
                    outOfRange >>
    /\ UNCHANGED cvars

\* the commands and the nodes start each stage once, in the declared order
startStageInOrder(stage) == InOrder(stage) /\ startStage(stage)

updateStageProgress(percentage) ==
    LET clamped == Clamp(percentage) IN
    /\ clamped >= stageProgress[currentStage] \/ lowerings < MaxLowerings
    /\ stageProgress' = [stageProgress EXCEPT ![currentStage] = clamped]
    /\ totalProgress' = calculateTotalProgress(stageProgress')
    /\ reportProgress(totalProgress' - lastReportedProgress)
    /\ lastReportedProgress' = totalProgress'
    /\ lowerings' = IF clamped >= stageProgress[currentStage]
                    THEN lowerings ELSE lowerings + 1
    /\ unsunk' = (unsunk \/ ~progress)
    /\ outOfRange' = (outOfRange \/ percentage < 0 \/ percentage > 100)
    /\ UNCHANGED << progress, currentStage, started, resets >>
    /\ UNCHANGED cvars

completeStage ==
    /\ stageProgress' = [stageProgress EXCEPT ![currentStage] = 100]
    /\ totalProgress' = calculateTotalProgress(stageProgress')
    /\ reportProgress(totalProgress' - lastReportedProgress)
    /\ lastReportedProgress' = totalProgress'
    /\ unsunk' = (unsunk \/ ~progress)
    /\ UNCHANGED << progress, currentStage, started, lowerings, resets,
                    outOfRange >>
    /\ UNCHANGED cvars

\* a reset that forgets to clear the last reported aggregate
reset_KeepsLastReported ==
    /\ resets < MaxResets
    /\ currentStage' = "Initializing"
    /\ totalProgress' = 0
    /\ UNCHANGED lastReportedProgress
    /\ stageProgress' = ZeroProgress
    /\ sumTicks' = 0
    /\ started' = 0
    /\ lowerings' = 0
    /\ unsunk' = FALSE
    /\ resets' = resets + 1
    /\ outOfRange' = FALSE
    /\ UNCHANGED progress
    /\ UNCHANGED cvars

\* reset(): the commands call it at the start of every run; the sink of the
\* run before stays attached until setProgressObjects replaces it
reset ==
    /\ resets < MaxResets
    /\ currentStage' = "Initializing"
    /\ totalProgress' = 0
    /\ lastReportedProgress' = 0
    /\ stageProgress' = ZeroProgress
    /\ sumTicks' = 0
    /\ started' = 0
    /\ lowerings' = 0
    /\ unsunk' = FALSE
    /\ resets' = resets + 1
    /\ outOfRange' = FALSE
    /\ UNCHANGED progress
    /\ UNCHANGED cvars

(***************************************************************************)
(* The file system under the crawled root.  Paths are relative to the      *)
(* root, as crawlLocalFilesAsync reports them with useRelativePaths.       *)
(***************************************************************************)
Root == "."

Dirs == { "d" }

FilePaths == { ".gitignore", "a.txt", "b.txt", "d/c.txt" }

Paths == FilePaths \cup Dirs

\* the order in which fs.readdir lists entries
ListingOrder == << ".gitignore", "a.txt", "b.txt", "d", "d/c.txt", "loop" >>

\* symbolic links to a directory: fs.stat follows them, so isDirectory() is
\* true of a link whose target is a directory
Links == { "loop" }

\* where the link points: loop -> . in the root
Target(link) == Root

\* the directory fs.readdir lists for a directory entry
Real(item) == IF item \in Links THEN Target(item) ELSE item

Parent(p) == IF p = "d/c.txt" THEN "d" ELSE Root

Segments(p) == IF p = "d/c.txt" THEN { "d", "c.txt" } ELSE { p }

readdir(dir) ==
    SelectSeq(ListingOrder, LAMBDA p : p \in exists /\ Parent(p) = dir)

Undefined == "undefined"

\* the directory arguments a caller may pass: the root, a path that does not
\* exist, and the path of a file
Directories == { Root, "nowhere", "a.txt" }

\* a directory check that lets every path through
IsDirectory_Always(directory) == TRUE

\* existsSync(directory) && statSync(directory).isDirectory()
IsDirectory(directory) ==
    directory = Root \/ (directory \in Dirs /\ directory \in exists)

\* stats.size of a file: the length of its content
Size(data) == Len(data)

\* an ignore specification that matches nothing
GitignoreMatch_Never(pattern, relPath) == FALSE

\* ignore().add(patterns).ignores(relPath) for the rules the model uses: a
\* name matches at any depth, and everything below a matched directory;
\* a rule ending in "/" matches only what lies below that directory
GitignoreMatch(pattern, relPath) ==
    CASE pattern = "" -> FALSE
      [] pattern = "d/" -> "d" \in Segments(relPath) /\ relPath # "d"
      [] OTHER -> pattern \in Segments(relPath)

\* gitignoreContent.split("\n"): the model's ignore files hold one line
GitignorePatterns(gitignoreContent) == { gitignoreContent }

\* gitignoreSpec is null when there is no .gitignore or it cannot be read
LoadGitignore ==
    IF ".gitignore" \in exists /\ ".gitignore" \notin denied
    THEN GitignorePatterns(content[".gitignore"])
    ELSE {}

\* minimatch(relPath, pattern) with default options, for the globs the model uses
Minimatch(relPath, pattern) ==
    CASE pattern = "*" -> relPath \in { "a.txt", "b.txt", "d" }
      [] pattern = "*.txt" -> relPath \in { "a.txt", "b.txt" }
      [] pattern = "d/*" -> relPath = "d/c.txt"
      [] pattern = "**/*.txt" -> relPath \in { "a.txt", "b.txt", "d/c.txt" }
      [] OTHER -> relPath = pattern

\* an optional string[] argument: left out, or a list of globs
NoPatterns == [ given |-> FALSE, list |-> << >> ]

Patterns(list) == [ given |-> TRUE, list |-> list ]

\* exclusion by the exclusion globs alone
Excluded_GlobsOnly(relPath, gitignoreSpec, excludePatterns) ==
    /\ excludePatterns.given
    /\ \E k \in 1..Len(excludePatterns.list) :
          Minimatch(relPath, excludePatterns.list[k])

Excluded(relPath, gitignoreSpec, excludePatterns) ==
    \/ \E pattern \in gitignoreSpec : GitignoreMatch(pattern, relPath)
    \/ /\ excludePatterns.given
       /\ \E k \in 1..Len(excludePatterns.list) :
             Minimatch(relPath, excludePatterns.list[k])

Included(relPath, includePatterns) ==
    \/ ~includePatterns.given
    \/ \E k \in 1..Len(includePatterns.list) : includePatterns.list[k] = "*"
    \/ \E k \in 1..Len(includePatterns.list) :
          Minimatch(relPath, includePatterns.list[k])

\* collectFilePaths either throws (readdir or stat rejected) or leaves the
\* candidates in pendingFiles; statted and listed are the entries it has
\* called fs.stat on and the directories it has called fs.readdir on
Thrown == [ err |-> TRUE, pending |-> << >>, statted |-> {}, listed |-> {} ]

Collected(pending, statted, listed) ==
    [ err |-> FALSE, pending |-> pending, statted |-> statted, listed |-> listed ]

RECURSIVE collectFilePaths(_, _, _, _), CollectItems(_, _, _, _, _)
collectFilePaths(currentPath, gitignoreSpec, includePatterns, excludePatterns) ==
    IF currentPath \in denied
    THEN Thrown
    ELSE LET items == CollectItems(readdir(currentPath), 1, gitignoreSpec,
                                   includePatterns, excludePatterns)
         IN  IF items.err THEN Thrown
             ELSE Collected(items.pending, items.statted,
                            items.listed \cup { currentPath })

CollectItems(items, k, gitignoreSpec, includePatterns, excludePatterns) ==
    IF k > Len(items) THEN Collected(<< >>, {}, {})
    ELSE LET item == items[k]
             excluded == Excluded(item, gitignoreSpec, excludePatterns)
             below == IF item \in Dirs /\ ~excluded
                      THEN collectFilePaths(item, gitignoreSpec, includePatterns,
                                            excludePatterns)
                      ELSE IF item \in FilePaths /\ ~excluded
                              /\ Included(item, includePatterns)
                      THEN Collected(<< item >>, {}, {})
                      ELSE Collected(<< >>, {}, {})
             rest == CollectItems(items, k + 1, gitignoreSpec, includePatterns,
                                  excludePatterns)
         IN  IF item \in broken \/ below.err THEN Thrown
             ELSE IF rest.err THEN Thrown
             ELSE Collected(below.pending \o rest.pending,
                            { item } \cup below.statted \cup rest.statted,
                            below.listed \cup rest.listed)

(***************************************************************************)
(* The hash cache file.  A file holds nothing (absent), text that is not   *)
(* a serialised cache, or the JSON text of a cache document.               *)
(***************************************************************************)
EmptyCache == [ w \in {} |-> 0 ]

Absent == [ kind |-> "absent", text |-> "", json |-> {} ]

Text(t) == [ kind |-> "text", text |-> t, json |-> {} ]

\* a serialisation that writes the entries only
Members_EntriesOnly(cache) ==
    UNION { { << w, f, cache[w][f].hash, cache[w][f].timestamp >> :
                f \in DOMAIN cache[w] } : w \in DOMAIN cache }

\* the members of the JSON text of a cache: one per workspace key, and one
\* per entry with its hash and timestamp
Members(cache) ==
    { << w >> : w \in DOMAIN cache }
    \cup UNION { { << w, f, cache[w][f].hash, cache[w][f].timestamp >> :
                     f \in DOMAIN cache[w] } : w \in DOMAIN cache }

\* the object a JSON text with these members parses to
Parsed(members) ==
    [ w \in { m[1] : m \in members } |->
        [ f \in { m[2] : m \in { x \in members : Len(x) = 4 /\ x[1] = w } } |->
            LET m == CHOOSE x \in members : Len(x) = 4 /\ x[1] = w /\ x[2] = f
            IN  [ hash |-> m[3], timestamp |-> m[4] ] ] ]

\* JSON.stringify(cache, null, 2)
JSONstringify(cache) == [ kind |-> "json", text |-> "", json |-> Members(cache) ]

\* the texts a damaged or foreign cache file may hold
ForeignTexts == { "", "  ", "{oops", "null" }

\* the values readFileHashCache can return: an object, or JSON's null
Object(doc) == [ kind |-> "object", doc |-> doc ]

JsonNull == [ kind |-> "null", doc |-> EmptyCache ]

\* JSON.parse(data): throws on text that is not JSON, returns the value otherwise
JSONparse(data) ==
    CASE data.kind = "json" -> [ err |-> FALSE, value |-> Object(Parsed(data.json)) ]
      [] data.kind = "text" /\ data.text = "null" -> [ err |-> FALSE, value |-> JsonNull ]
      [] OTHER -> [ err |-> TRUE, value |-> Object(EmptyCache) ]

\* data.trim() is empty
IsBlank(data) == data.kind = "text" /\ data.text \in { "", "  " }

\* crypto.createHash('md5').update(fileContent).digest('hex')
Hash(fileContent) == << "md5", fileContent >>

\* a load that reads the cache file whether or not the path has been set
readFileHashCache_IgnoresPath ==
    IF cacheFile.kind = "absent" THEN Object(EmptyCache)
    ELSE IF IsBlank(cacheFile) THEN Object(EmptyCache)
    ELSE IF JSONparse(cacheFile).err THEN Object(EmptyCache)
    ELSE JSONparse(cacheFile).value

readFileHashCache ==
    IF fileHashCachePath = "" THEN Object(EmptyCache)
    ELSE IF cacheFile.kind = "absent" THEN Object(EmptyCache)
    ELSE IF IsBlank(cacheFile) THEN Object(EmptyCache)
    ELSE IF JSONparse(cacheFile).err THEN Object(EmptyCache)
    ELSE JSONparse(cacheFile).value

\* cache[workspaceId] throws a TypeError on null
Indexable(cache) == cache.kind # "null"

\* a lookup that never finds the entry
HasEntry_Never(cache, workspaceId, filePath) == FALSE

HasEntry(cache, workspaceId, filePath) ==
    /\ workspaceId \in DOMAIN cache
    /\ filePath \in DOMAIN cache[workspaceId]

\* cache[workspaceId][filePath] = { hash, timestamp } of updateFileHash
PutEntry(cache, workspaceId, filePath, hash, timestamp) ==
    LET old == IF workspaceId \in DOMAIN cache THEN cache[workspaceId] ELSE EmptyCache
        entry == [ hash |-> hash, timestamp |-> timestamp ]
        inner == [ f \in DOMAIN old \cup { filePath } |->
                     IF f = filePath THEN entry ELSE old[f] ]
    IN  [ w \in DOMAIN cache \cup { workspaceId } |->
            IF w = workspaceId THEN inner ELSE cache[w] ]


\* the hash of a path that has no entry
NoDigest == << "none", "" >>

\* no cache function has been called directly yet
NoCall ==
    [ op |-> "none", workspaceId |-> "", filePath |-> "", content |-> Undefined,
      arg |-> EmptyCache, result |-> "", hashed |-> "", stored |-> NoDigest,
      inited |-> FALSE, n |-> 0, pc |-> "none", fd |-> "none" ]

(***************************************************************************)
(* crawlLocalFilesAsync and its caller FetchRepoNode.exec.                 *)
(***************************************************************************)
\* path.basename(directory) of the crawled root
Basename(directory) == "repo"

\* maxFileSize arguments: above every file, and below the five-byte files
MaxFileSizes == { 1024, 4 }

Params(maxFileSize, incrementalProcessing, workspaceId) ==
    [ directory |-> Root, includePatterns |-> NoPatterns,
      excludePatterns |-> NoPatterns, maxFileSize |-> maxFileSize,
      progressCallback |-> TRUE,
      incrementalProcessing |-> incrementalProcessing,
      workspaceId |-> workspaceId ]

NotCalled ==
    [ status |-> "idle", caller |-> "none", p |-> Params(0, FALSE, ""),
      workspaceId |-> "", pendingFiles |-> << >>, i |-> 0, filesList |-> << >>,
      unchangedCount |-> 0, error |-> "none", inited |-> FALSE,
      statted |-> {}, listed |-> {}, gitignoreRead |-> FALSE,
      gitignoreSpec |-> {}, stack |-> << >>, visits |-> << >>,
      found |-> << >> ]

NoOutcome == [ f \in FilePaths |-> "none" ]

NoPrev == [ valid |-> FALSE, p |-> Params(0, FALSE, ""), workspaceId |-> "",
            files |-> << >>, unchanged |-> 0, inited |-> FALSE ]

InitialContent ==
    [ f \in FilePaths |->
        CASE f = ".gitignore" -> "b.txt"
          [] f = "a.txt" -> "aaaaa"
          [] f = "b.txt" -> "bbbbb"
          [] f = "d/c.txt" -> "" ]

\* the trees a behaviour may start from
Trees ==
    { { ".gitignore", "a.txt", "b.txt" },
      { "a.txt", "b.txt", "d", "d/c.txt" },
      { ".gitignore", "b.txt" },
      { } }

\* what an edit may write into a file
EditContents == { "", "zzzzz" }

\* a behaviour starts with at most one fault in place
Faults ==
    { [ broken |-> {}, denied |-> {}, cache |-> Absent ] }
    \cup { [ broken |-> { e }, denied |-> {}, cache |-> Absent ] : e \in { "b.txt" } }
    \cup { [ broken |-> {}, denied |-> { e }, cache |-> Absent ] : e \in { "a.txt", "d" } }
    \cup { [ broken |-> {}, denied |-> {}, cache |-> Text(t) ] : t \in ForeignTexts }

NoTasks == << >>

NoCrawl ==
    /\ exists = { ".gitignore", "a.txt", "b.txt" }
    /\ content = InitialContent
    /\ broken = {}
    /\ denied = {}
    /\ fileHashCachePath = ""
    /\ cacheFile = Absent
    /\ tmpFile = Absent
    /\ now = 1
    /\ call = NoCall
    /\ cancelled = FALSE
    /\ crawl = NotCalled
    /\ tasks = NoTasks
    /\ execStatus = "none"
    /\ crawlNo = 0
    /\ outcome = NoOutcome
    /\ prev = NoPrev
    /\ odd = 0

InitCrawl ==
    /\ ProgressManagerNew
    /\ exists \in Trees
    /\ content = InitialContent
    /\ \E fault \in Faults :
         /\ broken = fault.broken
         /\ denied = fault.denied
         /\ cacheFile = fault.cache
         /\ odd = IF fault.broken = {} /\ fault.denied = {} /\ fault.cache = Absent
                  THEN 0 ELSE 1
    /\ fileHashCachePath = ""
    /\ tmpFile = Absent
    /\ now = 1
    /\ call = NoCall
    /\ cancelled = FALSE
    /\ crawl = NotCalled
    /\ tasks = NoTasks
    /\ execStatus = "none"
    /\ crawlNo = 0
    /\ outcome = NoOutcome
    /\ prev = NoPrev

StatFails(p) == p \notin exists \/ p \in broken

ReadFails(p) == p \notin exists \/ p \in broken \/ p \in denied

\* what a call that has ended leaves for the next one to be compared with
Ended ==
    IF crawl.status = "returned"
    THEN [ valid |-> TRUE, p |-> crawl.p, workspaceId |-> crawl.workspaceId,
           files |-> crawl.filesList, unchanged |-> crawl.unchangedCount,
           inited |-> crawl.inited ]
    ELSE NoPrev

\* a call that keeps the workspace id it was given
FallbackWorkspaceId_None(p) == p.workspaceId

\* if (incrementalProcessing && !workspaceId) workspaceId = path.basename(directory)
FallbackWorkspaceId(p) ==
    IF p.incrementalProcessing /\ p.workspaceId = ""
    THEN Basename(p.directory) ELSE p.workspaceId

\* the locals of crawlLocalFilesAsync when its batch loop starts, or when it
\* has thrown before: the directory check, the .gitignore, collectFilePaths
\* and the workspace id fallback
Started(p, caller) ==
    LET collected == collectFilePaths(Root, LoadGitignore, p.includePatterns,
                                      p.excludePatterns)
        fresh == [ NotCalled EXCEPT !.caller = caller, !.p = p,
                                    !.inited = (fileHashCachePath # "") ]
    IN  IF ~IsDirectory(p.directory)
        THEN [ fresh EXCEPT !.status = "failed", !.error = "directory" ]
        ELSE IF collected.err
        THEN [ fresh EXCEPT !.status = "failed", !.error = "collect",
                            !.gitignoreRead = (".gitignore" \in exists) ]
        ELSE [ fresh EXCEPT
                 !.status = "running",
                 !.gitignoreRead = (".gitignore" \in exists),
                 !.pendingFiles = collected.pending,
                 !.statted = collected.statted,
                 !.listed = collected.listed,
                 !.workspaceId = FallbackWorkspaceId(p) ]

\* a call of crawlLocalFilesAsync, up to its batch loop
crawlLocalFilesAsync(p, caller) ==
    /\ crawlNo < MaxCrawls
    /\ crawl.status \in { "idle", "returned", "failed" }
    /\ execStatus # "crawling"
    /\ crawlNo' = crawlNo + 1
    /\ prev' = Ended
    /\ outcome' = NoOutcome
    /\ tasks' = NoTasks
    /\ crawl' = Started(p, caller)
    /\ UNCHANGED << fsvars, cachevars, cancelled, odd, pvars >>

\* a direct call in incremental mode
CrawlIncremental ==
    /\ \E maxFileSize \in MaxFileSizes :
         crawlLocalFilesAsync(Params(maxFileSize, TRUE, "w1"), "direct")
    /\ UNCHANGED execStatus

\* FetchRepoNode.exec up to its await of crawlLocalFilesAsync
exec ==
    /\ execStatus # "crawling"
    /\ crawl.status # "running"
    /\ IF cancelled
       THEN /\ execStatus' = "failed"
            /\ UNCHANGED << cvarsButExec, pvars >>
       ELSE /\ execStatus' = "crawling"
            /\ \E maxFileSize \in MaxFileSizes :
                 crawlLocalFilesAsync(Params(maxFileSize, FALSE, ""), "exec")

\* an exec that returns whatever the crawl returned, the empty list too
execResume_NoEmptyCheck ==
    /\ execStatus = "crawling"
    /\ crawl.status \in { "returned", "failed" }
    /\ execStatus' = IF crawl.status = "failed" THEN "failed" ELSE "returned"
    /\ UNCHANGED << cvarsButExec, pvars >>

\* FetchRepoNode.exec after the await
execResume ==
    /\ execStatus = "crawling"
    /\ crawl.status \in { "returned", "failed" }
    /\ execStatus' = IF crawl.status = "failed" \/ Len(crawl.filesList) = 0
                     THEN "failed" ELSE "returned"
    /\ UNCHANGED << cvarsButExec, pvars >>

(***************************************************************************)
(* The batch loop.  batch.map(async ...) runs every callback of the batch  *)
(* synchronously up to its first await: the progress callback of each      *)
(* candidate has been called, and has thrown or not, before any fs.stat    *)
(* of the batch completes.  Everything inside the callback sits in its     *)
(* try block, whose catch turns any throw into a null result.              *)
(***************************************************************************)
\* stored is the digest found in the cache and changed the answer of
\* hasFileChanged: no digest and FALSE until the callback has got that far
NewTask(path) ==
    [ path |-> path, pc |-> "stat", cache |-> EmptyCache, stored |-> NoDigest,
      data |-> "", changed |-> FALSE, result |-> "pending", why |-> "",
      fd |-> "none", calls |-> << >>, reads |-> 0 ]

Settle(t, result, why) == [ t EXCEPT !.pc = "done", !.result = result, !.why = why ]

\* the caller's progress callback throws once isCancelled() is true
CallbackThrows == crawl.p.progressCallback /\ cancelled

\* a catch block that throws the error again
Caught_Rethrows(t, why) == Settle(t, "thrown", why)

\* what the catch block of the batch callback does with a thrown error
Caught(t, why) == Settle(t, "null", why)

\* a callback that is told how many candidates have been started, this one
\* included
Called_CountsThisOne(t, current, total) ==
    IF crawl.p.progressCallback
    THEN [ t EXCEPT !.calls = Append(@, << current + 1, total, t.path >>) ]
    ELSE t

\* if (progressCallback) progressCallback(i + index, totalFiles, fileInfo.path)
Called(t, current, total) ==
    IF crawl.p.progressCallback
    THEN [ t EXCEPT !.calls = Append(@, << current, total, t.path >>) ]
    ELSE t

Dispatched(path, index) ==
    LET t == Called(NewTask(path), crawl.i + index, Len(crawl.pendingFiles))
    IN  IF CallbackThrows THEN Caught(t, "callback") ELSE t

\* a batch that takes every candidate left
BatchLength_Rest == Len(crawl.pendingFiles) - crawl.i

\* the length of pendingFiles.slice(i, i + batchSize)
BatchLength == IF Len(crawl.pendingFiles) - crawl.i < batchSize
               THEN Len(crawl.pendingFiles) - crawl.i ELSE batchSize

DispatchBatch ==
    /\ crawl.status = "running"
    /\ tasks = NoTasks
    /\ crawl.i < Len(crawl.pendingFiles)
    /\ tasks' = [ k \in 1..BatchLength |->
                    Dispatched(crawl.pendingFiles[crawl.i + k], k - 1) ]
    /\ UNCHANGED << fsvars, cachevars, cancelled, crawl, execStatus, crawlNo,
                    outcome, prev, odd, pvars >>

Incremental == crawl.p.incrementalProcessing /\ crawl.workspaceId # ""

Step(k, t) ==
    /\ tasks' = [ tasks EXCEPT ![k] = t ]
    /\ UNCHANGED << fsvars, cancelled, execStatus, crawlNo, outcome, prev, odd, pvars >>

\* await fs.stat, the size cap
TaskStat(k) ==
    /\ tasks[k].pc = "stat"
    /\ LET t == tasks[k] IN
         Step(k, IF StatFails(t.path) THEN Caught(t, "error")
                 ELSE IF crawl.p.maxFileSize # 0
                         /\ Size(content[t.path]) > crawl.p.maxFileSize
                 THEN Settle(t, "null", "oversize")
                 ELSE IF Incremental THEN [ t EXCEPT !.pc = "hasFileChanged" ]
                 ELSE [ t EXCEPT !.pc = "readFile" ])
    /\ UNCHANGED << cachevars, crawl >>

\* hasFileChanged up to its lookup: the cache is read, the entry looked up
TaskHasFileChanged(k) ==
    /\ tasks[k].pc = "hasFileChanged"
    /\ LET t == tasks[k]
           cache == readFileHashCache
       IN  Step(k, IF ~Indexable(cache) THEN Caught(t, "cache")
                   ELSE IF ~HasEntry(cache.doc, crawl.workspaceId, t.path)
                   THEN [ t EXCEPT !.pc = "readFile", !.changed = TRUE ]
                   ELSE [ t EXCEPT !.pc = "calculateFileHash",
                            !.stored = cache.doc[crawl.workspaceId][t.path].hash ])
    /\ UNCHANGED << cachevars, crawl >>

\* a change check whose negative answers are not counted
TaskCalculateFileHash_NoCount(k) ==
    /\ tasks[k].pc = "calculateFileHash"
    /\ LET t == tasks[k]
           fileChanged == ReadFails(t.path) \/ Hash(content[t.path]) # t.stored
       IN  Step(k, IF fileChanged
                   THEN [ t EXCEPT !.pc = "readFile", !.changed = TRUE ]
                   ELSE [ Settle(t, "null", "unchanged") EXCEPT !.changed = FALSE ])
    /\ UNCHANGED << cachevars, crawl >>

\* hasFileChanged's calculateFileHash(filePath): the file is read and hashed;
\* if (!fileChanged) { unchangedCount++; return null; }
TaskCalculateFileHash(k) ==
    /\ tasks[k].pc = "calculateFileHash"
    /\ LET t == tasks[k]
           fileChanged == ReadFails(t.path) \/ Hash(content[t.path]) # t.stored
       IN  /\ Step(k, IF fileChanged
                      THEN [ t EXCEPT !.pc = "readFile", !.changed = TRUE,
                                      !.reads = IF ReadFails(t.path) THEN @ ELSE @ + 1 ]
                      ELSE [ Settle(t, "null", "unchanged") EXCEPT
                               !.changed = FALSE, !.reads = @ + 1 ])
           /\ crawl' = IF fileChanged THEN crawl
                       ELSE [ crawl EXCEPT !.unchangedCount = @ + 1 ]
    /\ UNCHANGED cachevars

\* writeFileHashCache up to its writeFile: nothing is written without a path
BeginWrite(t, cache) ==
    IF fileHashCachePath = "" THEN Settle(t, "file", "")
    ELSE [ t EXCEPT !.pc = "writeFile", !.cache = cache ]

\* await fs.readFile of the candidate
TaskReadFile(k) ==
    /\ tasks[k].pc = "readFile"
    /\ LET t == tasks[k] IN
         Step(k, IF ReadFails(t.path) THEN Caught(t, "error")
                 ELSE IF Incremental
                 THEN [ t EXCEPT !.pc = "updateFileHash", !.data = content[t.path],
                                 !.reads = @ + 1 ]
                 ELSE [ Settle(t, "file", "") EXCEPT !.data = content[t.path],
                                                     !.reads = @ + 1 ])
    /\ UNCHANGED << cachevars, crawl >>

\* updateFileHash: the cache is read; content || await fs.readFile(...) hashes
\* the content read above unless it is the empty string
TaskUpdateFileHash(k) ==
    /\ tasks[k].pc = "updateFileHash"
    /\ LET t == tasks[k]
           cache == readFileHashCache
       IN  Step(k, IF ~Indexable(cache) THEN Caught(t, "cache")
                   ELSE IF t.data = ""
                   THEN [ t EXCEPT !.pc = "rehash", !.cache = cache.doc ]
                   ELSE BeginWrite(t, PutEntry(cache.doc, crawl.workspaceId, t.path,
                                               Hash(t.data), now)))
    /\ UNCHANGED << cachevars, crawl >>

\* calculateFileHash reading the file again for an empty content
TaskRehash(k) ==
    /\ tasks[k].pc = "rehash"
    /\ LET t == tasks[k] IN
         Step(k, IF ReadFails(t.path) THEN Caught(t, "error")
                 ELSE BeginWrite([ t EXCEPT !.reads = @ + 1 ],
                                 PutEntry(t.cache, crawl.workspaceId, t.path,
                                          Hash(content[t.path]), now)))
    /\ UNCHANGED << cachevars, crawl >>

\* fs.writeFile(tempFilePath, ...) opens the temporary file with flag 'w':
\* the file is created, or truncated if another save left it there
TaskOpenTmp(k) ==
    /\ tasks[k].pc = "writeFile"
    /\ tmpFile' = Text("")
    /\ Step(k, [ tasks[k] EXCEPT !.pc = "write", !.fd = "tmp" ])
    /\ UNCHANGED << fileHashCachePath, cacheFile, now, call, crawl >>

\* fs.writeFile writes JSON.stringify(cache, null, 2) through its descriptor
\* and closes it; the descriptor follows the file it opened, wherever a
\* rename of another save has moved it in the meantime
TaskWrite(k) ==
    /\ tasks[k].pc = "write"
    /\ LET t == tasks[k] IN
         /\ tmpFile' = IF t.fd = "tmp" THEN JSONstringify(t.cache) ELSE tmpFile
         /\ cacheFile' = IF t.fd = "real" THEN JSONstringify(t.cache) ELSE cacheFile
         /\ Step(k, [ t EXCEPT !.pc = "rename", !.fd = "none" ])
    /\ UNCHANGED << fileHashCachePath, now, call, crawl >>

\* where an open descriptor points after a rename of the temporary file
\* over the real path
Renamed(fd) ==
    CASE fd = "tmp" -> "real"
      [] fd = "real" -> "gone"
      [] OTHER -> fd

\* a writeFileHashCache whose error reaches the batch callback
SaveFailed_Propagates(t) == Settle(t, "null", "unsaved")

\* what the catch block of writeFileHashCache leaves: the error is logged and
\* updateFileHash returns normally
SaveFailed(t) == Settle(t, "file", "unsaved")

\* await fs.rename(tempFilePath, fileHashCachePath); it fails when another
\* save has already renamed the temporary file away
TaskRename(k) ==
    /\ tasks[k].pc = "rename"
    /\ IF tmpFile.kind = "absent"
       THEN /\ UNCHANGED << cacheFile, tmpFile >>
            /\ tasks' = [ tasks EXCEPT ![k] = SaveFailed(tasks[k]) ]
       ELSE /\ cacheFile' = tmpFile
            /\ tmpFile' = Absent
            /\ tasks' = [ j \in DOMAIN tasks |->
                            IF j = k THEN Settle(tasks[k], "file", "")
                            ELSE [ tasks[j] EXCEPT !.fd = Renamed(@) ] ]
    /\ call' = IF tmpFile.kind = "absent" THEN call
               ELSE [ call EXCEPT !.fd = Renamed(@) ]
    /\ UNCHANGED << fsvars, cancelled, execStatus, crawlNo, outcome, prev, odd, pvars >>
    /\ UNCHANGED << fileHashCachePath, now, crawl >>

\* fs.writeFile or fs.rename rejects (disk full, permissions)
TaskSaveFails(k) ==
    /\ tasks[k].pc \in { "writeFile", "write", "rename" }
    /\ odd < MaxOdd
    /\ odd' = odd + 1
    /\ tasks' = [ tasks EXCEPT ![k] = [ SaveFailed(tasks[k]) EXCEPT !.fd = "none" ] ]
    /\ UNCHANGED << fsvars, cachevars, cancelled, crawl, execStatus, crawlNo,
                    outcome, prev, pvars >>

\* results.filter(Boolean).forEach(push), in the order of the batch
RECURSIVE Results(_, _)
Results(ts, k) ==
    IF k > Len(ts) THEN << >>
    ELSE (IF ts[k].result = "file"
          THEN << [ path |-> ts[k].path, content |-> ts[k].data ] >>
          ELSE << >>) \o Results(ts, k + 1)

Why(t) == IF t.result = "file" THEN "emitted" ELSE t.why

\* a batch loop that puts the results of a batch in front of the earlier ones
FinishBatch_Prepends ==
    /\ crawl.status = "running"
    /\ tasks # NoTasks
    /\ \A k \in DOMAIN tasks : tasks[k].pc = "done"
    /\ crawl' = IF \E k \in DOMAIN tasks : tasks[k].result = "thrown"
                THEN [ crawl EXCEPT !.status = "failed", !.error = "batch" ]
                ELSE [ crawl EXCEPT !.filesList = Results(tasks, 1) \o @,
                                    !.i = @ + batchSize ]
    /\ outcome' = [ f \in FilePaths |->
                     IF \E k \in DOMAIN tasks : tasks[k].path = f
                     THEN Why(tasks[CHOOSE k \in DOMAIN tasks : tasks[k].path = f])
                     ELSE outcome[f] ]
    /\ tasks' = NoTasks
    /\ UNCHANGED << fsvars, cachevars, cancelled, execStatus, crawlNo, prev, odd, pvars >>

\* the await of Promise.all returns and the loop advances; a callback that
\* rejected would reject Promise.all and with it the whole call
FinishBatch ==
    /\ crawl.status = "running"
    /\ tasks # NoTasks
    /\ \A k \in DOMAIN tasks : tasks[k].pc = "done"
    /\ crawl' = IF \E k \in DOMAIN tasks : tasks[k].result = "thrown"
                THEN [ crawl EXCEPT !.status = "failed", !.error = "batch" ]
                ELSE [ crawl EXCEPT !.filesList = @ \o Results(tasks, 1),
                                    !.i = @ + batchSize ]
    /\ outcome' = [ f \in FilePaths |->
                     IF \E k \in DOMAIN tasks : tasks[k].path = f
                     THEN Why(tasks[CHOOSE k \in DOMAIN tasks : tasks[k].path = f])
                     ELSE outcome[f] ]
    /\ tasks' = NoTasks
    /\ UNCHANGED << fsvars, cachevars, cancelled, execStatus, crawlNo, prev, odd, pvars >>

\* return { files: filesList, unchanged: ... }
Return ==
    /\ crawl.status = "running"
    /\ tasks = NoTasks
    /\ crawl.i >= Len(crawl.pendingFiles)
    /\ crawl' = [ crawl EXCEPT !.status = "returned" ]
    /\ UNCHANGED << fsvars, cachevars, cancelled, tasks, execStatus, crawlNo,
                    outcome, prev, odd, pvars >>

\* the unchanged field of the result
Unchanged ==
    IF crawl.p.incrementalProcessing THEN crawl.unchangedCount ELSE Undefined

(***************************************************************************)
(* The environment.                                                        *)
(***************************************************************************)
\* activation: initializeCacheServices reaches initializeFileHashCachePath
initializeFileHashCachePath ==
    /\ fileHashCachePath = ""
    /\ fileHashCachePath' = "agentic-wiki.file_hash_cache.json"
    /\ UNCHANGED << fsvars, cacheFile, tmpFile, now, call, cancelled, crawl, tasks,
                    execStatus, crawlNo, outcome, prev, odd, pvars >>

\* the user cancels: token.isCancellationRequested becomes true
Cancel ==
    /\ ~cancelled
    /\ odd < MaxOdd
    /\ cancelled' = TRUE
    /\ odd' = odd + 1
    /\ UNCHANGED << fsvars, cachevars, crawl, tasks, execStatus, crawlNo,
                    outcome, prev, pvars >>

\* some other process rewrites a file
Edit(f, data) ==
    /\ f \in exists
    /\ content[f] # data
    /\ odd < MaxOdd
    /\ content' = [ content EXCEPT ![f] = data ]
    /\ odd' = odd + 1
    /\ UNCHANGED << exists, broken, denied, cachevars, cancelled, crawl, tasks,
                    execStatus, crawlNo, outcome, prev, pvars >>

\* some other process removes a file
Unlink(f) ==
    /\ f \in exists
    /\ odd < MaxOdd
    /\ exists' = exists \ { f }
    /\ odd' = odd + 1
    /\ UNCHANGED << content, broken, denied, cachevars, cancelled, crawl, tasks,
                    execStatus, crawlNo, outcome, prev, pvars >>

NextCrawl ==
    \/ exec
    \/ execResume
    \/ CrawlIncremental
    \/ DispatchBatch
    \/ \E k \in DOMAIN tasks : TaskStat(k)
    \/ \E k \in DOMAIN tasks : TaskHasFileChanged(k)
    \/ \E k \in DOMAIN tasks : TaskCalculateFileHash(k)
    \/ \E k \in DOMAIN tasks : TaskReadFile(k)
    \/ \E k \in DOMAIN tasks : TaskUpdateFileHash(k)
    \/ \E k \in DOMAIN tasks : TaskRehash(k)
    \/ \E k \in DOMAIN tasks : TaskOpenTmp(k)
    \/ \E k \in DOMAIN tasks : TaskWrite(k)
    \/ \E k \in DOMAIN tasks : TaskSaveFails(k)
    \/ \E k \in DOMAIN tasks : TaskRename(k)
    \/ FinishBatch
    \/ Return
    \/ initializeFileHashCachePath
    \/ Cancel
    \/ \E f \in FilePaths, data \in EditContents : Edit(f, data)
    \/ \E f \in FilePaths : Unlink(f)

SpecCrawl == InitCrawl /\ [][NextCrawl]_vars

(***************************************************************************)
(* Crawls with inclusion and exclusion globs and other ignore files: a     *)
(* non-incremental call of crawlLocalFilesAsync and its batch loop.        *)
(***************************************************************************)
\* the rule an ignore file may hold
IgnoreRules == { "b.txt", "d", "d/" }

IncludeLists == { NoPatterns, Patterns(<< "*" >>), Patterns(<< "*.txt" >>),
                  Patterns(<< "**/*.txt" >>), Patterns(<< "d/*" >>) }

ExcludeLists == { NoPatterns, Patterns(<< "d" >>), Patterns(<< "b.txt" >>) }

CollectTrees == Trees \cup { { ".gitignore", "a.txt", "b.txt", "d", "d/c.txt" } }

InitCollect ==
    /\ ProgressManagerNew
    /\ exists \in CollectTrees
    /\ \E rule \in IgnoreRules :
         content = [ InitialContent EXCEPT ![".gitignore"] = rule ]
    /\ broken = {}
    /\ denied = {}
    /\ fileHashCachePath = ""
    /\ cacheFile = Absent
    /\ tmpFile = Absent
    /\ now = 1
    /\ call = NoCall
    /\ cancelled = FALSE
    /\ crawl = NotCalled
    /\ tasks = NoTasks
    /\ execStatus = "none"
    /\ crawlNo = 0
    /\ outcome = NoOutcome
    /\ prev = NoPrev
    /\ odd = 0

\* a call with inclusion and exclusion globs
CrawlWithGlobs ==
    /\ \E includePatterns \in IncludeLists, excludePatterns \in ExcludeLists :
         crawlLocalFilesAsync(
             [ Params(1024, FALSE, "") EXCEPT !.includePatterns = includePatterns,
                                            !.excludePatterns = excludePatterns ],
             "direct")
    /\ UNCHANGED execStatus

NextCollect ==
    \/ CrawlWithGlobs
    \/ DispatchBatch
    \/ \E k \in DOMAIN tasks : TaskStat(k)
    \/ \E k \in DOMAIN tasks : TaskReadFile(k)
    \/ FinishBatch
    \/ Return

SpecCollect == InitCollect /\ [][NextCollect]_vars

(***************************************************************************)
(* Calls of crawlLocalFilesAsync with every kind of argument: any          *)
(* directory, with and without a size cap, incremental or not, with and    *)
(* without a workspace id, before and after the cache path is set.         *)
(***************************************************************************)
\* maxFileSize arguments: none (undefined or 0), below the five-byte files,
\* and exactly five bytes
CallMaxFileSizes == { 0, 4, 5 }

\* workspaceId arguments: none, and the base name of the root
WorkspaceIds == { "", "repo" }

\* the tree under the root: its .gitignore holds the rule b.txt, which
\* leaves three candidates, the last of them an empty file
CallTree == { ".gitignore", "a.txt", "b.txt", "d", "d/c.txt" }

\* the files that other processes rewrite, and remove, while calls run
Rewritten == { "d/c.txt" }

Removed == { "a.txt" }

\* the cache document an earlier session may have left in global storage:
\* the digest of a.txt as it is now, under the base name of the root
EarlierCache ==
    [ w \in { "repo" } |->
        [ f \in { "a.txt" } |-> [ hash |-> Hash("aaaaa"), timestamp |-> 0 ] ] ]

InitCalls ==
    /\ ProgressManagerNew
    /\ exists = CallTree
    /\ content = InitialContent
    /\ broken = {}
    /\ denied = {}
    /\ fileHashCachePath = ""
    /\ cacheFile \in { Absent, JSONstringify(EarlierCache) }
    /\ tmpFile = Absent
    /\ now = 1
    /\ call = NoCall
    /\ cancelled = FALSE
    /\ crawl = NotCalled
    /\ tasks = NoTasks
    /\ execStatus = "none"
    /\ crawlNo = 0
    /\ outcome = NoOutcome
    /\ prev = NoPrev
    /\ odd = 0

\* a direct call with any arguments
CrawlWith ==
    /\ \E directory \in Directories, maxFileSize \in CallMaxFileSizes,
          incrementalProcessing \in BOOLEAN, workspaceId \in WorkspaceIds :
         crawlLocalFilesAsync(
             [ Params(maxFileSize, incrementalProcessing, workspaceId)
                 EXCEPT !.directory = directory ],
             "direct")
    /\ UNCHANGED execStatus

NextCalls ==
    \/ CrawlWith
    \/ DispatchBatch
    \/ \E k \in DOMAIN tasks : TaskStat(k)
    \/ \E k \in DOMAIN tasks : TaskHasFileChanged(k)
    \/ \E k \in DOMAIN tasks : TaskCalculateFileHash(k)
    \/ \E k \in DOMAIN tasks : TaskReadFile(k)
    \/ \E k \in DOMAIN tasks : TaskUpdateFileHash(k)
    \/ \E k \in DOMAIN tasks : TaskRehash(k)
    \/ \E k \in DOMAIN tasks : TaskOpenTmp(k)
    \/ \E k \in DOMAIN tasks : TaskWrite(k)
    \/ \E k \in DOMAIN tasks : TaskRename(k)
    \/ FinishBatch
    \/ Return
    \/ initializeFileHashCachePath
    \/ Cancel
    \/ \E f \in Rewritten, data \in EditContents : Edit(f, data)
    \/ \E f \in Removed : Unlink(f)

SpecCalls == InitCalls /\ [][NextCalls]_vars

(***************************************************************************)
(* The cache functions called one at a time, each call awaited before the  *)
(* next: hasFileChanged, updateFileHash, cleanupFileHashCache and          *)
(* writeFileHashCache, with a clock and a file system that changes.        *)
(***************************************************************************)
MaxNow == 3

StoreFiles == { "a.txt", "d/c.txt" }

\* the optional content argument: left out, the empty string, or a text
ContentArgs == { Undefined, "", "aaaaa" }

\* the maxAgeMs argument (the code's default, 30 days, scaled down)
MaxAges == { 0, 1 }

Entry(data, timestamp) == [ hash |-> Hash(data), timestamp |-> timestamp ]

\* cache documents handed to writeFileHashCache
Documents ==
    { EmptyCache,
      [ w \in { "w1" } |-> EmptyCache ],
      [ w \in { "w1" } |-> [ f \in { "a.txt" } |-> Entry("aaaaa", 1) ] ],
      [ w \in { "w1", "w2" } |->
          IF w = "w1" THEN [ f \in { "a.txt", "d/c.txt" } |-> Entry("", 2) ]
          ELSE EmptyCache ] }

InitStore ==
    /\ ProgressManagerNew
    /\ exists = { "a.txt", "b.txt", "d", "d/c.txt" }
    /\ content = InitialContent
    /\ broken = {}
    /\ denied = {}
    /\ fileHashCachePath = ""
    /\ cacheFile \in { Absent, Text("null") }
    /\ odd = IF cacheFile = Absent THEN 0 ELSE 1
    /\ tmpFile = Absent
    /\ now = 1
    /\ call = NoCall
    /\ cancelled = FALSE
    /\ crawl = NotCalled
    /\ tasks = NoTasks
    /\ execStatus = "none"
    /\ crawlNo = 0
    /\ outcome = NoOutcome
    /\ prev = NoPrev

\* what a direct call of a cache function leaves alone
StoreFrame ==
    UNCHANGED << fsvars, fileHashCachePath, tmpFile, now, cancelled, crawl, tasks,
                 execStatus, crawlNo, outcome, prev, odd, pvars >>

\* calculateFileHash: content || await fs.readFile(filePath, 'utf-8') is the
\* content argument unless it is left out or empty, and the file otherwise
calculateFileHash(filePath, given) ==
    IF given # Undefined /\ given # ""
    THEN [ err |-> FALSE, data |-> given ]
    ELSE IF ReadFails(filePath) THEN [ err |-> TRUE, data |-> "" ]
    ELSE [ err |-> FALSE, data |-> content[filePath] ]

\* the call repeats the updateFileHash before it: same workspace, path and
\* content argument, and the same content hashed
Repeats(workspaceId, filePath, given, h) ==
    /\ call.op = "updateFileHash" /\ call.result = "ok"
    /\ call.workspaceId = workspaceId /\ call.filePath = filePath
    /\ call.content = given
    /\ ~h.err /\ h.data = call.hashed

\* the entry's hash in a loaded cache
StoredHash(cache, workspaceId, filePath) ==
    IF Indexable(cache) /\ HasEntry(cache.doc, workspaceId, filePath)
    THEN cache.doc[workspaceId][filePath].hash
    ELSE NoDigest

hasFileChanged(workspaceId, filePath, given) ==
    /\ LET cache == readFileHashCache
           h == calculateFileHash(filePath, given)
           result ==
               IF ~Indexable(cache) THEN "TypeError"
               ELSE IF ~HasEntry(cache.doc, workspaceId, filePath) THEN "true"
               ELSE IF h.err THEN "true"
               ELSE IF Hash(h.data) # cache.doc[workspaceId][filePath].hash
               THEN "true" ELSE "false"
           repeats == Repeats(workspaceId, filePath, given, h)
       IN  call' = [ op |-> "hasFileChanged", workspaceId |-> workspaceId,
                     filePath |-> filePath, content |-> given,
                     arg |-> EmptyCache, result |-> result,
                     hashed |-> h.data,
                     stored |-> StoredHash(cache, workspaceId, filePath),
                     inited |-> IF repeats THEN call.inited
                                ELSE fileHashCachePath # "",
                     n |-> IF repeats THEN call.n ELSE 0,
                     pc |-> "none", fd |-> "none" ]
    /\ UNCHANGED cacheFile
    /\ StoreFrame

\* a save that writes nowhere
Written_Nowhere(cache) == cacheFile

\* writeFileHashCache seen from its caller once awaited: nothing without a
\* path, else the temporary file written and renamed over the real path
Written(cache) ==
    IF fileHashCachePath = "" THEN cacheFile ELSE JSONstringify(cache)

updateFileHash(workspaceId, filePath, given) ==
    /\ LET cache == readFileHashCache
           h == calculateFileHash(filePath, given)
           ok == Indexable(cache) /\ ~h.err
           repeats == Repeats(workspaceId, filePath, given, h)
       IN  /\ cacheFile' =
                IF ok
                THEN Written(PutEntry(cache.doc, workspaceId, filePath,
                                      Hash(h.data), now))
                ELSE cacheFile
           /\ call' = [ op |-> "updateFileHash", workspaceId |-> workspaceId,
                        filePath |-> filePath, content |-> given,
                        arg |-> EmptyCache,
                        result |-> IF ~Indexable(cache) THEN "TypeError"
                                   ELSE IF h.err THEN "Error" ELSE "ok",
                        hashed |-> h.data,
                        stored |-> StoredHash(cache, workspaceId, filePath),
                        inited |-> IF repeats THEN call.inited
                                   ELSE fileHashCachePath # "",
                        n |-> IF ~ok THEN 0 ELSE IF repeats THEN 2 ELSE 1,
                        pc |-> "none", fd |-> "none" ]
    /\ StoreFrame

\* an expiry that starts at maxAgeMs
Expired_AtLeast(entry, maxAgeMs) == now - entry.timestamp >= maxAgeMs

\* now - fileCache.timestamp > maxAgeMs
Expired(entry, maxAgeMs) == now - entry.timestamp > maxAgeMs

\* a sweep that deletes the expired entries and keeps every workspace key
Swept_KeepsEmpty(cache, maxAgeMs) ==
    [ w \in DOMAIN cache |->
        [ f \in { g \in DOMAIN cache[w] : now - cache[w][g].timestamp <= maxAgeMs }
            |-> cache[w][f] ] ]

\* the cache after the two loops of cleanupFileHashCache: expired entries
\* deleted, then every workspace without keys deleted
Swept(cache, maxAgeMs) ==
    LET kept(w) == { f \in DOMAIN cache[w] : ~Expired(cache[w][f], maxAgeMs) }
    IN  [ w \in { v \in DOMAIN cache : kept(v) # {} } |->
            [ f \in kept(w) |-> cache[w][f] ] ]

entriesRemoved(cache, maxAgeMs) ==
    Cardinality(UNION { { << w, f >> : f \in { g \in DOMAIN cache[w] :
                                                Expired(cache[w][g], maxAgeMs) } } :
                        w \in DOMAIN cache })

\* for ... in over JSON null runs no iteration
cleanupFileHashCache(maxAgeMs) ==
    /\ LET cache == readFileHashCache IN
         cacheFile' =
             IF Indexable(cache) /\ entriesRemoved(cache.doc, maxAgeMs) > 0
             THEN Written(Swept(cache.doc, maxAgeMs))
             ELSE cacheFile
    /\ LET cache == readFileHashCache IN
         call' = [ NoCall EXCEPT
                     !.op = "cleanupFileHashCache",
                     !.inited = (fileHashCachePath # ""),
                     !.n = IF Indexable(cache)
                           THEN entriesRemoved(cache.doc, maxAgeMs) ELSE 0 ]
    /\ StoreFrame

writeFileHashCache(cache) ==
    /\ cacheFile' = Written(cache)
    /\ call' = [ NoCall EXCEPT !.op = "writeFileHashCache", !.arg = cache,
                               !.inited = (fileHashCachePath # "") ]
    /\ StoreFrame

\* time passes
Tick ==
    /\ now < MaxNow
    /\ now' = now + 1
    /\ UNCHANGED << fsvars, fileHashCachePath, cacheFile, tmpFile, call, cancelled,
                    crawl, tasks, execStatus, crawlNo, outcome, prev, odd, pvars >>

NextStore ==
    \/ initializeFileHashCachePath
    \/ Tick
    \/ \E filePath \in StoreFiles, given \in ContentArgs :
          hasFileChanged("w1", filePath, given)
    \/ \E filePath \in StoreFiles, given \in ContentArgs :
          updateFileHash("w1", filePath, given)
    \/ \E maxAgeMs \in MaxAges : cleanupFileHashCache(maxAgeMs)
    \/ \E cache \in Documents : writeFileHashCache(cache)
    \/ \E f \in StoreFiles, data \in EditContents : Edit(f, data)
    \/ \E f \in StoreFiles : Unlink(f)

SpecStore == InitStore /\ [][NextStore]_vars

(***************************************************************************)
(* collectFilePaths await by await, on trees that may hold a symbolic link *)
(* to a directory.  crawl.stack holds the activations of collectFilePaths, *)
(* innermost last: the directory being listed, the number of links on the  *)
(* path to it, its items and the index of the for loop.  crawl.visits is   *)
(* the sequence of directories fs.readdir has listed, crawl.found the      *)
(* paths pushed to pendingFiles with the number of links they go through.  *)
(***************************************************************************)
\* the number of symbolic links the system follows in one path before
\* fs.stat fails with ELOOP (40 on Linux, scaled down)
MaxSymlinks == 2

WalkTrees ==
    { { ".gitignore", "a.txt", "b.txt", "d", "d/c.txt" },
      { ".gitignore", "a.txt", "b.txt", "d", "d/c.txt", "loop" } }

InitWalk ==
    /\ ProgressManagerNew
    /\ exists \in WalkTrees
    /\ content = InitialContent
    /\ broken = {}
    /\ denied = {}
    /\ fileHashCachePath = "agentic-wiki.file_hash_cache.json"
    /\ cacheFile = Absent
    /\ tmpFile = Absent
    /\ now = 1
    /\ call = NoCall
    /\ cancelled = FALSE
    /\ crawl = NotCalled
    /\ tasks = NoTasks
    /\ execStatus = "none"
    /\ crawlNo = 0
    /\ outcome = NoOutcome
    /\ prev = NoPrev
    /\ odd = 0

Activation(dir, hops) ==
    [ dir |-> dir, hops |-> hops, pc |-> "readdir", items |-> << >>, k |-> 1 ]

Top == crawl.stack[Len(crawl.stack)]

WalkFrame ==
    UNCHANGED << fsvars, cachevars, cancelled, tasks, execStatus, crawlNo,
                 outcome, prev, odd, pvars >>

\* crawlLocalFilesAsync up to the first readdir of collectFilePaths
WalkStart(p) ==
    /\ crawlNo < MaxCrawls
    /\ crawl.status \in { "idle", "returned", "failed" }
    /\ crawlNo' = crawlNo + 1
    /\ prev' = Ended
    /\ outcome' = NoOutcome
    /\ tasks' = NoTasks
    /\ crawl' = [ NotCalled EXCEPT
                    !.caller = "direct", !.p = p,
                    !.inited = (fileHashCachePath # ""),
                    !.status = "collecting",
                    !.gitignoreRead = (".gitignore" \in exists),
                    !.gitignoreSpec = LoadGitignore,
                    !.stack = << Activation(Root, 0) >> ]
    /\ UNCHANGED << fsvars, cachevars, cancelled, execStatus, odd, pvars >>

\* an error thrown in collectFilePaths rejects crawlLocalFilesAsync
WalkThrown ==
    [ crawl EXCEPT !.status = "failed", !.error = "collect", !.stack = << >>,
                   !.found = << >> ]

\* const items = await fs.readdir(currentPath)
WalkReaddir ==
    /\ crawl.status = "collecting"
    /\ Top.pc = "readdir"
    /\ crawl' = IF Top.dir \in denied THEN WalkThrown
                ELSE [ crawl EXCEPT
                         !.stack[Len(crawl.stack)] =
                             [ Top EXCEPT !.pc = "items", !.items = readdir(Top.dir) ],
                         !.visits = Append(@, Top.dir),
                         !.listed = @ \cup { Top.dir } ]
    /\ WalkFrame

\* one turn of the for loop: await fs.stat(itemPath), which follows links and
\* fails on a path through too many of them; the exclusion checks; then the
\* recursive call for a directory, or the push of a file.  The ignore rules
\* of the model match by name, so a path through the link is matched as the
\* path it stands for
WalkItem ==
    /\ crawl.status = "collecting"
    /\ Top.pc = "items" /\ Top.k <= Len(Top.items)
    /\ LET item == Top.items[Top.k]
           hops == Top.hops + (IF item \in Links THEN 1 ELSE 0)
           excluded == Excluded(item, crawl.gitignoreSpec, crawl.p.excludePatterns)
           next == [ Top EXCEPT !.k = @ + 1 ]
           n == Len(crawl.stack)
       IN  crawl' =
             IF StatFails(item) \/ hops > MaxSymlinks THEN WalkThrown
             ELSE IF item \in Dirs \cup Links /\ ~excluded
             THEN [ crawl EXCEPT
                      !.statted = @ \cup { item },
                      !.stack = Append([ @ EXCEPT ![n] = next ],
                                       Activation(Real(item), hops)) ]
             ELSE IF item \in FilePaths /\ ~excluded
                     /\ Included(item, crawl.p.includePatterns)
             THEN [ crawl EXCEPT
                      !.statted = @ \cup { item },
                      !.stack[n] = next,
                      !.found = Append(@, [ path |-> item, hops |-> Top.hops ]) ]
             ELSE [ crawl EXCEPT !.statted = @ \cup { item }, !.stack[n] = next ]
    /\ WalkFrame

\* the for loop of an activation ends: the recursive call returns to its
\* caller, or collectFilePaths returns to crawlLocalFilesAsync, which goes on
\* to its batch loop
WalkReturn ==
    /\ crawl.status = "collecting"
    /\ Top.pc = "items" /\ Top.k > Len(Top.items)
    /\ crawl' =
         IF Len(crawl.stack) > 1
         THEN [ crawl EXCEPT !.stack = SubSeq(@, 1, Len(@) - 1) ]
         ELSE [ crawl EXCEPT
                  !.status = "running",
                  !.stack = << >>,
                  !.pendingFiles = [ n \in 1..Len(crawl.found) |-> crawl.found[n].path ],
                  !.workspaceId = FallbackWorkspaceId(crawl.p) ]
    /\ WalkFrame

\* a call in either mode, without a size cap
Walk ==
    \E incrementalProcessing \in BOOLEAN :
        WalkStart(Params(0, incrementalProcessing, "repo"))

\* the steps of crawlLocalFilesAsync itself: they are taken as soon as the
\* file system operation they await has completed
CrawlStep ==
    \/ WalkReaddir
    \/ WalkItem
    \/ WalkReturn
    \/ DispatchBatch
    \/ \E k \in DOMAIN tasks : TaskStat(k)
    \/ \E k \in DOMAIN tasks : TaskHasFileChanged(k)
    \/ \E k \in DOMAIN tasks : TaskCalculateFileHash(k)
    \/ \E k \in DOMAIN tasks : TaskReadFile(k)
    \/ \E k \in DOMAIN tasks : TaskUpdateFileHash(k)
    \/ \E k \in DOMAIN tasks : TaskRehash(k)
    \/ \E k \in DOMAIN tasks : TaskOpenTmp(k)
    \/ \E k \in DOMAIN tasks : TaskWrite(k)
    \/ \E k \in DOMAIN tasks : TaskRename(k)
    \/ FinishBatch
    \/ Return

NextWalk == Walk \/ CrawlStep

SpecWalk == InitWalk /\ [][NextWalk]_vars

\* every file system operation completes, and the event loop then runs the
\* continuation that awaits it
SpecWalkFair == SpecWalk /\ WF_vars(CrawlStep)

(***************************************************************************)
(* Activation next to a crawl.  activate() starts initializeCacheServices  *)
(* without awaiting it and registers the commands at once, so the          *)
(* cleanupFileHashCache at its end runs while a command's crawl may be in  *)
(* its batch loop.  The sweep is followed await by await; its locals are   *)
(* kept in the variable call: pc is the await it stands at, arg the cache  *)
(* it loaded and swept, n its entriesRemoved, fd its open descriptor.      *)
(***************************************************************************)
\* one file to crawl: its callback is the only updateFileHash of a call
SweepTree == { "a.txt" }

\* what an earlier session left: the entry of a file that is gone since
StaleCache ==
    [ w \in { "repo" } |->
        [ f \in { "b.txt" } |-> [ hash |-> Hash("bbbbb"), timestamp |-> 0 ] ] ]

InitSweep ==
    /\ ProgressManagerNew
    /\ exists = SweepTree
    /\ content = InitialContent
    /\ broken = {}
    /\ denied = {}
    /\ fileHashCachePath = ""
    /\ cacheFile \in { Absent, JSONstringify(StaleCache) }
    /\ tmpFile = Absent
    /\ now = 1
    /\ call = NoCall
    /\ cancelled = FALSE
    /\ crawl = NotCalled
    /\ tasks = NoTasks
    /\ execStatus = "none"
    /\ crawlNo = 0
    /\ outcome = NoOutcome
    /\ prev = NoPrev
    /\ odd = 0

\* what a step of the sweep leaves alone
SweepFrame ==
    UNCHANGED << fsvars, fileHashCachePath, now, cancelled, crawl, execStatus,
                 crawlNo, outcome, prev, odd, pvars >>

\* cleanupFileHashCache up to its save: the cache is loaded, the two loops
\* run on the loaded object, and the save follows only if entriesRemoved > 0.
\* initializeCacheServices calls it after its await of
\* initializeFileHashCachePath
SweepLoad(maxAgeMs) ==
    /\ call.op = "none"
    /\ fileHashCachePath # ""
    /\ LET cache == readFileHashCache
           removed == IF Indexable(cache)
                      THEN entriesRemoved(cache.doc, maxAgeMs) ELSE 0
       IN  call' = [ NoCall EXCEPT
                       !.op = "cleanupFileHashCache",
                       !.inited = TRUE,
                       !.n = removed,
                       !.arg = IF removed > 0 THEN Swept(cache.doc, maxAgeMs)
                               ELSE EmptyCache,
                       !.pc = IF removed > 0 THEN "writeFile" ELSE "done" ]
    /\ UNCHANGED << cacheFile, tmpFile, tasks >>
    /\ SweepFrame

\* its writeFileHashCache: fs.writeFile opens the temporary file
SweepOpenTmp ==
    /\ call.pc = "writeFile"
    /\ tmpFile' = Text("")
    /\ call' = [ call EXCEPT !.pc = "write", !.fd = "tmp" ]
    /\ UNCHANGED << cacheFile, tasks >>
    /\ SweepFrame

\* fs.writeFile writes the swept cache through its descriptor
SweepWrite ==
    /\ call.pc = "write"
    /\ tmpFile' = IF call.fd = "tmp" THEN JSONstringify(call.arg) ELSE tmpFile
    /\ cacheFile' = IF call.fd = "real" THEN JSONstringify(call.arg) ELSE cacheFile
    /\ call' = [ call EXCEPT !.pc = "rename", !.fd = "none" ]
    /\ UNCHANGED tasks
    /\ SweepFrame

\* fs.rename of the temporary file; its failure is caught and logged
SweepRename ==
    /\ call.pc = "rename"
    /\ IF tmpFile.kind = "absent"
       THEN UNCHANGED << cacheFile, tmpFile, tasks >>
       ELSE /\ cacheFile' = tmpFile
            /\ tmpFile' = Absent
            /\ tasks' = [ j \in DOMAIN tasks |->
                            [ tasks[j] EXCEPT !.fd = Renamed(@) ] ]
    /\ call' = [ call EXCEPT !.pc = "done",
                             !.result = IF tmpFile.kind = "absent"
                                        THEN "unsaved" ELSE "saved" ]
    /\ SweepFrame

\* a command's crawl of the workspace in incremental mode
CrawlWorkspace ==
    /\ crawlLocalFilesAsync(Params(0, TRUE, "repo"), "direct")
    /\ UNCHANGED execStatus

NextSweep ==
    \/ initializeFileHashCachePath
    \/ \E maxAgeMs \in MaxAges : SweepLoad(maxAgeMs)
    \/ SweepOpenTmp
    \/ SweepWrite
    \/ SweepRename
    \/ CrawlWorkspace
    \/ DispatchBatch
    \/ \E k \in DOMAIN tasks : TaskStat(k)
    \/ \E k \in DOMAIN tasks : TaskHasFileChanged(k)
    \/ \E k \in DOMAIN tasks : TaskCalculateFileHash(k)
    \/ \E k \in DOMAIN tasks : TaskReadFile(k)
    \/ \E k \in DOMAIN tasks : TaskUpdateFileHash(k)
    \/ \E k \in DOMAIN tasks : TaskOpenTmp(k)
    \/ \E k \in DOMAIN tasks : TaskWrite(k)
    \/ \E k \in DOMAIN tasks : TaskRename(k)
    \/ FinishBatch
    \/ Return

SpecSweep == InitSweep /\ [][NextSweep]_vars

(***************************************************************************)
(* The saves of one batch on a cache that an earlier session has filled:   *)
(* three candidates, the cache path set, and the entry of a file that is   *)
(* no candidate in the cache file from the start.                          *)
(***************************************************************************)
SavesTree == { ".gitignore", "a.txt", "d", "d/c.txt" }

InitSaves ==
    /\ ProgressManagerNew
    /\ exists = SavesTree
    /\ content = InitialContent
    /\ broken = {}
    /\ denied = {}
    /\ fileHashCachePath = "agentic-wiki.file_hash_cache.json"
    /\ cacheFile = JSONstringify(StaleCache)
    /\ tmpFile = Absent
    /\ now = 1
    /\ call = NoCall
    /\ cancelled = FALSE
    /\ crawl = NotCalled
    /\ tasks = NoTasks
    /\ execStatus = "none"
    /\ crawlNo = 0
    /\ outcome = NoOutcome
    /\ prev = NoPrev
    /\ odd = 0

NextSaves ==
    \/ CrawlWorkspace
    \/ DispatchBatch
    \/ \E k \in DOMAIN tasks : TaskStat(k)
    \/ \E k \in DOMAIN tasks : TaskHasFileChanged(k)
    \/ \E k \in DOMAIN tasks : TaskCalculateFileHash(k)
    \/ \E k \in DOMAIN tasks : TaskReadFile(k)
    \/ \E k \in DOMAIN tasks : TaskUpdateFileHash(k)
    \/ \E k \in DOMAIN tasks : TaskRehash(k)
    \/ \E k \in DOMAIN tasks : TaskOpenTmp(k)
    \/ \E k \in DOMAIN tasks : TaskWrite(k)
    \/ \E k \in DOMAIN tasks : TaskRename(k)
    \/ FinishBatch
    \/ Return

SpecSaves == InitSaves /\ [][NextSaves]_vars

NextProgress ==
    \/ reset
    \/ setProgressObjects
    \/ \E stage \in StageSet : startStageInOrder(stage)
    \/ \E percentage \in Percents : updateStageProgress(percentage)
    \/ completeStage

InitProgress == ProgressManagerNew /\ NoCrawl

SpecProgress == InitProgress /\ [][NextProgress]_vars

(***************************************************************************)
(* The ProgressManager under callers that start stages in any order and    *)
(* any number of times: the class itself does not enforce the order.       *)
(***************************************************************************)
\* the stages these callers start: two weighted ones and the last one,
\* whose weight is zero
AnyOrderStages == { "Initializing", "Fetching Files", "Completed" }

NextStages ==
    \/ reset
    \/ setProgressObjects
    \/ \E stage \in AnyOrderStages : startStage(stage)
    \/ \E percentage \in Percents : updateStageProgress(percentage)
    \/ completeStage

SpecStages == InitProgress /\ [][NextStages]_vars

(***************************************************************************)
(* Claims about the ProgressManager, checked under SpecProgress (whose     *)
(* startStage calls follow the declared stage order).                      *)
(***************************************************************************)
WeightedStages == { s \in StageSet : STAGE_WEIGHTS[s] > 0 }

LastWeightedStage == "Combining Tutorial"

FullRun ==
    /\ progress /\ ~unsunk
    /\ started = Len(ProcessStage) /\ currentStage = "Completed"
    /\ \A s \in StageSet : stageProgress[s] = 100

\* C4: every tick the sink receives has an increment >= 0, and over a full
\* run the increments sum to exactly 100.
C4_IncrementsSumTo100 ==
    /\ [][reset \/ sumTicks' >= sumTicks]_vars
    /\ [](FullRun => sumTicks = Full)

(***************************************************************************)
(* Claims about crawlLocalFilesAsync and the hash cache, checked under     *)
(* SpecCrawl.                                                              *)
(***************************************************************************)
Candidates == { crawl.pendingFiles[n] : n \in 1..Len(crawl.pendingFiles) }

Returned == crawl.status = "returned"

\* C1: when the progress callback throws, the crawl is aborted: the error
\* reaches the caller and crawlLocalFilesAsync returns no result.
C1_CallbackThrowAbortsCrawl ==
    (\E f \in FilePaths : outcome[f] = "callback") => ~Returned

\* the content the previous crawl emitted for a path, if it emitted the path
PrevEmitted(path) == \E n \in 1..Len(prev.files) : prev.files[n].path = path

PrevContent(path) ==
    prev.files[CHOOSE n \in 1..Len(prev.files) : prev.files[n].path = path].content

\* hasFileChanged returns for candidate k in this step
Decides(k) ==
    /\ k \in DOMAIN tasks /\ k \in DOMAIN tasks'
    /\ tasks[k].pc \in { "hasFileChanged", "calculateFileHash" }
    /\ tasks'[k].pc = "readFile" \/ tasks'[k].why = "unchanged"

\* C2: for every file emitted by a completed incremental crawl of a workspace
\* (the cache path initialised), whatever the number of candidates, the next
\* incremental crawl of the workspace finds hasFileChanged = false for the
\* file when its content is the emitted one, and true when it differs.
C2_SecondCrawlDecidesByContent ==
    [][\A k \in DOMAIN tasks :
          ( /\ Decides(k)
            /\ crawl.p.incrementalProcessing /\ prev.valid /\ prev.inited
            /\ prev.p.incrementalProcessing /\ prev.workspaceId = crawl.workspaceId
            /\ PrevEmitted(tasks[k].path)
            /\ ~ReadFails(tasks[k].path) )
          => tasks'[k].changed = (content[tasks[k].path] # PrevContent(tasks[k].path))
      ]_vars

\* C5 as stated: crawlLocalFilesAsync never returns a result with files = [].
C5_CrawlNeverReturnsEmpty == Returned => Len(crawl.filesList) > 0

\* C5 amended: the empty result is returned by crawlLocalFilesAsync and is
\* turned into an error by its caller: FetchRepoNode.exec never returns an
\* empty file list, and fails once its crawl has returned one.
C5_ExecFailsOnEmptyResult ==
    crawl.caller = "exec" =>
        /\ execStatus = "returned" => Returned /\ Len(crawl.filesList) > 0
        /\ Returned /\ Len(crawl.filesList) = 0 /\ execStatus # "crawling"
              => execStatus = "failed"

\* C5 witness: a crawl has returned files = [] and exec has failed on it.
C5_Witness ==
    /\ crawl.caller = "exec" /\ Returned /\ Len(crawl.filesList) = 0
    /\ execStatus = "failed"

\* the tree of the two scenarios, untouched, and no fault or cancellation
ScenarioTree ==
    /\ exists = { ".gitignore", "a.txt", "b.txt" }
    /\ content = InitialContent
    /\ odd = 0

Scenario6 ==
    /\ ScenarioTree
    /\ Returned
    /\ ~crawl.p.incrementalProcessing
    /\ crawl.p.maxFileSize = 1024

File(path) == [ path |-> path, content |-> InitialContent[path] ]

\* C6 as stated: the crawl of a.txt, b.txt and a .gitignore holding b.txt,
\* incremental off, returns files = [a.txt] and unchanged = undefined.
C6_ScenarioReturnsOnlyA ==
    Scenario6 => crawl.filesList = << File("a.txt") >> /\ Unchanged = Undefined

\* C6 amended: that crawl returns the .gitignore file itself and a.txt, in
\* this order, each with its content, not b.txt, and unchanged = undefined.
C6_ScenarioReturnsGitignoreAndA ==
    Scenario6 =>
        /\ crawl.filesList = << File(".gitignore"), File("a.txt") >>
        /\ Unchanged = Undefined

\* C6 witness: the scenario's crawl has returned.
C6_Witness == Scenario6 /\ Len(crawl.filesList) = 2

\* the second of two incremental crawls of the scenario tree for "w1", the
\* cache path initialised before the first
Scenario7 ==
    /\ ScenarioTree
    /\ Returned
    /\ crawl.p.incrementalProcessing /\ crawl.workspaceId = "w1"
    /\ crawl.p.maxFileSize = 1024
    /\ prev.valid /\ prev.inited
    /\ prev.p.incrementalProcessing /\ prev.workspaceId = "w1"
    /\ prev.p.maxFileSize = 1024

C7_LostDigestReached == Scenario7 /\ Len(crawl.filesList) = 1

\* C8: a stat or read failure on a candidate drops that candidate only: the
\* call never fails in its batch loop, and when it returns every candidate
\* is in the files list unless it was dropped for a reason of its own: an
\* error only if it is itself unreadable, its size only with a cap set, the
\* callback only after a cancellation, unchanged or a cache that cannot be
\* indexed only in incremental mode.
C8_FailureDropsOnlyThatCandidate ==
    /\ crawl.status = "failed" => crawl.error \in { "directory", "collect" }
    /\ Returned =>
         \A f \in Candidates :
            /\ outcome[f] # "none"
            /\ outcome[f] = "error" => ReadFails(f)
            /\ outcome[f] = "cache" => crawl.p.incrementalProcessing
            /\ outcome[f] = "oversize" =>
                  /\ crawl.p.maxFileSize # 0
                  /\ Size(content[f]) > crawl.p.maxFileSize \/ odd > 0
            /\ outcome[f] = "callback" => cancelled
            /\ outcome[f] = "unchanged" => crawl.p.incrementalProcessing
            /\ outcome[f] \in { "emitted", "error", "cache", "oversize", "callback",
                                 "unchanged" }
            /\ outcome[f] = "emitted" <=>
                  \E n \in 1..Len(crawl.filesList) : crawl.filesList[n].path = f

\* C8 witness: a crawl has returned with one candidate dropped for an error
\* and another one emitted.
C8_Witness ==
    /\ Returned
    /\ \E f, g \in Candidates :
         /\ outcome[f] = "error" /\ ReadFails(f)
         /\ outcome[g] = "emitted"
         /\ \E n \in 1..Len(crawl.filesList) : crawl.filesList[n].path = g

\* C9: an I/O failure on a single entry, also while the tree is enumerated,
\* never makes the crawl fail.
C9_EntryFailureNeverFailsCrawl == crawl.status = "failed" => crawl.error = "directory"

\* C10: readFileHashCache returns an empty cache whenever the cache file is
\* missing, blank or holds anything that is not a cache document.
C10_ForeignCacheLoadsEmpty ==
    cacheFile.kind # "json" => readFileHashCache = Object(EmptyCache)

\* a candidate that a non-incremental crawl of the tree emits: it can be
\* read and is within the size cap
Eligible(f) ==
    /\ ~ReadFails(f)
    /\ crawl.p.maxFileSize = 0 \/ Size(content[f]) <= crawl.p.maxFileSize

\* C11: an incremental crawl that starts from a missing, blank or malformed
\* cache file, or with the cache path not initialised, emits exactly the
\* files a non-incremental crawl of the tree emits and counts unchanged = 0.
C11_CacheStateNeverRemovesFile ==
    ( /\ Returned /\ crawl.p.incrementalProcessing
      /\ crawlNo = 1 /\ ~cancelled /\ content = InitialContent )
    => /\ crawl.unchangedCount = 0
       /\ \A f \in Candidates : Eligible(f) => outcome[f] = "emitted"

\* C12: at every point during a save, the file at the real cache path holds
\* a complete document (the previous one or the new one, or no file before
\* the first save), never partial content, so that a crash at any point
\* leaves a document to load.
C12_RealPathAlwaysComplete ==
    odd = 0 => cacheFile.kind \in { "absent", "json" }

\* the files the batch in flight contributes to the result
BatchFiles == { k \in DOMAIN tasks : tasks[k].result = "file" }

\* C13: when the write of the temporary file or its rename fails inside
\* writeFileHashCache, no error reaches the batch callback or the caller of
\* the crawl: the candidate still settles as an emitted file with the content
\* read for it, the batch ends without failing the call, and its files and
\* the unchanged count are those of the tasks, saved or not.
C13_SaveFailureIsSwallowed ==
    /\ [](\A k \in DOMAIN tasks :
            tasks[k].why = "unsaved" =>
                /\ tasks[k].pc = "done" /\ tasks[k].result = "file"
                /\ tasks[k].changed = TRUE)
    /\ [][(tasks # NoTasks /\ tasks' = NoTasks /\ crawl'.status # "idle"
             /\ \E k \in DOMAIN tasks : tasks[k].why = "unsaved")
          => /\ crawl'.status = "running"
             /\ crawl'.unchangedCount = crawl.unchangedCount
             /\ crawl'.filesList = crawl.filesList \o Results(tasks, 1)
             /\ \A k \in BatchFiles :
                  \E n \in 1..Len(crawl'.filesList) :
                     crawl'.filesList[n] = [ path |-> tasks[k].path,
                                             content |-> tasks[k].data ]
         ]_vars

\* C13 witness: a crawl has returned a file whose digest could not be saved
\* because the write or the rename failed: the path was initialised, the
\* tree is intact and nothing was cancelled, yet the file is emitted and the
\* real path holds no document.
C13_Witness ==
    /\ Returned /\ crawl.p.incrementalProcessing /\ crawl.inited
    /\ \E f \in Candidates :
         /\ outcome[f] = "emitted"
         /\ cacheFile.kind # "json"
         /\ odd > 0 /\ ~cancelled /\ content = InitialContent
         /\ exists \in Trees /\ broken = {} /\ denied = {}

\* C14: whatever the interleaving of the load-modify-save cycles of a batch,
\* the persisted document only loses entries, which costs a re-emission by
\* the next crawl: no entry ever maps a path to a digest other than that of
\* the content the crawl emitted for it.
C14_EntriesAreDigestsOfEmittedContent ==
    ( /\ Returned /\ crawl.p.incrementalProcessing /\ crawlNo = 1
      /\ cacheFile.kind = "json" )
    => \A f \in FilePaths :
          HasEntry(Parsed(cacheFile.json), crawl.workspaceId, f)
          => \E n \in 1..Len(crawl.filesList) :
                /\ crawl.filesList[n].path = f
                /\ Parsed(cacheFile.json)[crawl.workspaceId][f].hash
                      = Hash(crawl.filesList[n].content)

(***************************************************************************)
(* Claims about the enumeration, checked under SpecCollect.                *)
(***************************************************************************)
Enumerated == crawl.status \in { "running", "returned" }

InResult(f) == \E n \in 1..Len(crawl.filesList) : crawl.filesList[n].path = f

\* the path matches a rule of the ignore file the crawl loaded
Ignored(f) == \E pattern \in LoadGitignore : GitignoreMatch(pattern, f)

\* C15: a file whose path matches an ignore rule is never a candidate and is
\* never in the result, whatever the inclusion globs: a list it matches, the
\* "*" sentinel, or no list.
C15_IgnoreRuleBeatsInclusion ==
    Enumerated => \A f \in FilePaths : Ignored(f) => f \notin Candidates /\ ~InResult(f)

\* C15 witness: a crawl has returned in which an existing file matches both
\* an ignore rule and an inclusion glob of a given list, and is left out,
\* while another file is in the result.
C15_Witness ==
    /\ Returned /\ crawl.p.includePatterns.given
    /\ \E f, g \in FilePaths \cap exists :
         /\ Ignored(f) /\ Included(f, crawl.p.includePatterns)
         /\ ~Excluded_GlobsOnly(f, {}, crawl.p.excludePatterns)
         /\ ~InResult(f)
         /\ InResult(g)

\* the directory is what an ignore rule (the name, or the name with a
\* trailing "/") or an exclusion glob excludes
DirectoryExcluded(dir) ==
    \/ \E pattern \in LoadGitignore : pattern \in { "d", "d/" } /\ dir = "d"
    \/ Excluded_GlobsOnly(dir, {}, crawl.p.excludePatterns)

\* C16: when a directory is excluded by an ignore rule or an exclusion glob,
\* the enumeration never lists it and never stats or emits an entry below it.
C16_ExcludedDirectoryIsPruned ==
    Enumerated =>
        \A dir \in Dirs \cap exists :
            DirectoryExcluded(dir) =>
                /\ dir \notin crawl.listed
                /\ \A f \in FilePaths :
                      Parent(f) = dir => f \notin crawl.statted /\ ~InResult(f)

(***************************************************************************)
(* Claims about the cache functions called one at a time, checked under    *)
(* SpecStore.                                                              *)
(***************************************************************************)
\* the cache a load returns now, for a cache that can be indexed
Loaded == readFileHashCache.doc

\* C17: cleanupFileHashCache(maxAgeMs) removes exactly the entries whose age
\* now - timestamp exceeds maxAgeMs and leaves every other entry as it was,
\* leaves no workspace without entries in the document it writes back, and
\* writes the document back only if at least one entry was removed.
C17_SweepRemovesExactlyTheOld ==
    [][\A maxAgeMs \in MaxAges :
          cleanupFileHashCache(maxAgeMs) =>
            LET before == readFileHashCache
                after == readFileHashCache'
                old(w, f) == now - before.doc[w][f].timestamp > maxAgeMs
            IN  IF ~Indexable(before)
                   \/ \A w \in DOMAIN before.doc :
                         \A f \in DOMAIN before.doc[w] : ~old(w, f)
                THEN cacheFile' = cacheFile
                ELSE /\ Indexable(after)
                     /\ \A w \in DOMAIN before.doc :
                           \A f \in DOMAIN before.doc[w] :
                              IF old(w, f)
                              THEN ~HasEntry(after.doc, w, f)
                              ELSE /\ HasEntry(after.doc, w, f)
                                   /\ after.doc[w][f] = before.doc[w][f]
                     /\ \A w \in DOMAIN after.doc :
                           /\ w \in DOMAIN before.doc
                           /\ DOMAIN after.doc[w] # {}
                           /\ DOMAIN after.doc[w] \subseteq DOMAIN before.doc[w]
      ]_vars

\* C17 witness: a sweep has removed an entry and the document it wrote back
\* still holds a younger one.
C17_Witness ==
    /\ call.op = "cleanupFileHashCache" /\ call.n > 0
    /\ cacheFile.kind = "json"
    /\ \E w \in DOMAIN Loaded : DOMAIN Loaded[w] # {}

\* C18 as stated: for every cache document, writeFileHashCache followed by
\* readFileHashCache returns a mapping identical to the document.
C18_SaveThenLoadIsIdentity ==
    call.op = "writeFileHashCache" => readFileHashCache = Object(call.arg)

\* C18 amended: once the cache path is initialised, writeFileHashCache
\* followed by readFileHashCache returns a mapping identical to the document.
C18_SaveThenLoadIsIdentityOncePathSet ==
    call.op = "writeFileHashCache" /\ call.inited
        => readFileHashCache = Object(call.arg)

\* C18 witness: a document with two workspaces, one of them without entries,
\* has been saved with the path initialised and is what a load returns.
C18_Witness ==
    /\ call.op = "writeFileHashCache" /\ call.inited
    /\ DOMAIN call.arg = { "w1", "w2" }
    /\ readFileHashCache = Object(call.arg)

\* the JSON members that belong to the entry of the last call's path
EntryMembers ==
    { m \in cacheFile.json :
        Len(m) = 4 /\ m[1] = call.workspaceId /\ m[2] = call.filePath }

\* after the second of two updateFileHash calls in succession for the same
\* unchanged content there is one entry, with the digest the first call left
StableEntry ==
    /\ cacheFile.kind = "json"
    /\ Cardinality(EntryMembers) = 1
    /\ HasEntry(Loaded, call.workspaceId, call.filePath)
    /\ Loaded[call.workspaceId][call.filePath].hash = Hash(call.hashed)
    /\ call.stored = Hash(call.hashed)

C20_HasFileChangedNeverThrows ==
    [][\A filePath \in StoreFiles, given \in ContentArgs :
          hasFileChanged("w1", filePath, given) =>
            LET cache == readFileHashCache
                h == calculateFileHash(filePath, given)
            IN  /\ call'.result \in { "true", "false" }
                /\ call'.result = "false" <=>
                      /\ Indexable(cache)
                      /\ HasEntry(cache.doc, "w1", filePath)
                      /\ ~h.err
                      /\ Hash(h.data) = cache.doc["w1"][filePath].hash
      ]_vars


(***************************************************************************)
(* Claims about calls with arbitrary arguments, checked under SpecCalls.   *)
(***************************************************************************)
\* C21: a call whose directory argument does not exist or is not a directory
\* fails at once: when it has failed no ignore file has been loaded, nothing
\* has been listed or statted, no candidate has been dispatched (so no
\* callback was called and no cache read), and the step that made the call
\* left the cache file and its temporary file as they were.
C21_BadDirectoryFailsBeforeAnything ==
    [][ (crawl'.status # "idle" /\ crawl'.p.directory # Root) =>
          /\ crawl'.status = "failed"
          /\ crawl'.error = "directory"
          /\ ~crawl'.gitignoreRead
          /\ crawl'.statted = {}
          /\ crawl'.listed = {}
          /\ crawl'.pendingFiles = << >>
          /\ crawl'.filesList = << >>
          /\ tasks' = NoTasks
          /\ outcome' = NoOutcome
          /\ cacheFile' = cacheFile
          /\ tmpFile' = tmpFile ]_vars

\* an incremental call on the path of a file, beside a .gitignore, has failed
C21_Witness ==
    /\ crawl.status = "failed"
    /\ crawl.error = "directory"
    /\ crawl.p.directory = "a.txt"
    /\ crawl.p.incrementalProcessing
    /\ { "a.txt", ".gitignore" } \subseteq exists
    /\ fileHashCachePath # ""


\* C22: the unchanged field of a returned result is undefined when the call
\* was not incremental, and otherwise it is the number of candidates of this
\* call for which hasFileChanged answered false.
C22_UnchangedCountsNegativeChecks ==
    Returned =>
      IF crawl.p.incrementalProcessing
      THEN Unchanged = Cardinality({ f \in FilePaths : outcome[f] = "unchanged" })
      ELSE Unchanged = Undefined

\* an incremental call has returned one file and skipped two as unchanged
C22_Witness ==
    /\ Returned
    /\ crawl.p.incrementalProcessing
    /\ Unchanged = 2
    /\ Len(crawl.filesList) = 1


\* C23: whatever maxFileSize the caller passes, no content longer than it is
\* ever in the result of the call.
C23_NoContentAboveTheCapIsEmitted ==
    \A n \in 1..Len(crawl.filesList) :
        Size(crawl.filesList[n].content) <= crawl.p.maxFileSize


\* C24: an incremental call without a workspace id runs as the same call
\* with the id set to the base name of the directory: both start their batch
\* loop from the same locals, the id the batch loop reads and writes cache
\* entries under is the base name, and every entry either call writes is
\* filed under that name.
C24_NoIdRunsAsBaseName ==
    /\ \A maxFileSize \in CallMaxFileSizes :
         LET none == Params(maxFileSize, TRUE, "")
             named == Params(maxFileSize, TRUE, Basename(Root))
         IN  [ Started(none, "direct") EXCEPT !.p = named ] = Started(named, "direct")
    /\ (crawl.status \in { "running", "returned" }
          /\ crawl.p.incrementalProcessing /\ crawl.p.workspaceId = "")
        => crawl.workspaceId = Basename(crawl.p.directory)
    /\ \A k \in DOMAIN tasks :
         tasks[k].pc \in { "writeFile", "write" } =>
           \A m \in Members(tasks[k].cache) : m[1] = Basename(Root)
    /\ cacheFile.kind = "json" => \A m \in cacheFile.json : m[1] = Basename(Root)

\* a call without an id has found unchanged a file whose digest the call
\* before it recorded under the id "repo"
C24_Witness ==
    /\ Returned
    /\ crawl.p.incrementalProcessing
    /\ crawl.p.workspaceId = ""
    /\ prev.valid
    /\ prev.p.incrementalProcessing
    /\ prev.p.workspaceId = Basename(Root)
    /\ prev.inited
    /\ crawl.unchangedCount >= 1


\* C25: as long as the cache path has not been set, loading the cache gives
\* the empty document whatever the cache file holds, no step writes the
\* cache file or its temporary file, every change check a crawl makes answers
\* "changed", and every digest a crawl records is dropped without a write.
C25_NothingLoadedOrSavedBeforeThePathIsSet ==
    [][ fileHashCachePath = "" =>
          /\ readFileHashCache = Object(EmptyCache)
          /\ cacheFile' = cacheFile
          /\ tmpFile' = tmpFile
          /\ \A k \in DOMAIN tasks \cap DOMAIN tasks' :
                /\ (tasks[k].pc = "hasFileChanged" /\ tasks'[k] # tasks[k])
                     => tasks'[k].pc = "readFile"
                /\ (tasks[k].pc \in { "updateFileHash", "rehash" }
                      /\ tasks'[k] # tasks[k])
                     => tasks'[k].pc \in { "rehash", "done" } ]_vars

\* an incremental call has run from start to end before the path was set,
\* beside a cache file holding the current digest of a.txt: a.txt was
\* returned as changed and the cache file is as it was
C25_Witness ==
    /\ Returned
    /\ crawl.p.incrementalProcessing
    /\ fileHashCachePath = ""
    /\ cacheFile = JSONstringify(EarlierCache)
    /\ outcome["a.txt"] = "emitted"
    /\ outcome["d/c.txt"] = "emitted"
    /\ Unchanged = 0


(***************************************************************************)
(* Further claims about the cache functions, checked under SpecStore.      *)
(***************************************************************************)
\* the last call reached calculateFileHash and got a digest from it:
\* updateFileHash that returned, or hasFileChanged that found an entry
Digested ==
    \/ call.op = "updateFileHash" /\ call.result = "ok"
    \/ call.op = "hasFileChanged" /\ call.stored # NoDigest
                                  /\ call.result \in { "true", "false" }

\* C26: when a content argument is passed to hasFileChanged or
\* updateFileHash, and by them to calculateFileHash, the content hashed is
\* that argument, whatever the file on disk holds, for the empty string too.
C26_SuppliedContentIsWhatIsHashed ==
    (Digested /\ call.content # Undefined) => call.hashed = call.content


(***************************************************************************)
(* A further claim about the ProgressManager, checked under SpecProgress.  *)
(***************************************************************************)
\* the fields of a ProgressManager as its constructor leaves them
FreshFields ==
    /\ currentStage = "Initializing"
    /\ stageProgress = ZeroProgress
    /\ totalProgress = 0
    /\ lastReportedProgress = 0

\* C27: reset() leaves every stage percentage, the aggregate and the last
\* reported aggregate at zero and the current stage at the first stage, as
\* the constructor does; so a run after reset reports what a first run
\* reports: as long as the run has a sink and lowers no percentage, the
\* increments it has reported add up to its aggregate, be it the first run
\* or one started by reset.
C27_ResetIsAsFresh ==
    /\ [][reset => FreshFields']_vars
    /\ []((progress /\ ~unsunk /\ lowerings = 0) => sumTicks = totalProgress)

\* a run started by reset after an earlier run has gone through every stage
\* and its increments add up to 100
C27_Witness ==
    /\ resets = 1
    /\ FullRun
    /\ lowerings = 0
    /\ sumTicks = Full


(***************************************************************************)
(* Claims about the batch loop, checked under SpecCalls.                   *)
(***************************************************************************)
\* C28: while a call runs, at most batchSize candidates are in flight, they
\* are the candidates of the current batch in their order, every candidate
\* of an earlier batch has finished (returned, skipped or failed), and no
\* candidate of a later batch has been started.
C28_BatchesRunOneAfterAnother ==
    crawl.status = "running" =>
      /\ Len(tasks) <= batchSize
      /\ \A k \in DOMAIN tasks :
           /\ crawl.i + k <= Len(crawl.pendingFiles)
           /\ tasks[k].path = crawl.pendingFiles[crawl.i + k]
      /\ \A n \in 1..Len(crawl.pendingFiles) :
           IF n <= crawl.i
           THEN outcome[crawl.pendingFiles[n]] # "none"
           ELSE outcome[crawl.pendingFiles[n]] = "none"

\* the second batch is in flight after a candidate of the first batch failed
\* and the other was returned
C28_Witness ==
    /\ crawl.status = "running"
    /\ crawl.i = batchSize
    /\ tasks # NoTasks
    /\ \E k \in DOMAIN tasks : tasks[k].pc # "done"
    /\ \E n \in 1..crawl.i : outcome[crawl.pendingFiles[n]] \in { "error", "callback", "cache" }


\* the number of candidates of the running call
TotalFiles == Len(crawl.pendingFiles)

\* the last batch of the running call is in flight
LastBatch ==
    /\ crawl.status = "running"
    /\ tasks # NoTasks
    /\ crawl.i + Len(tasks) = TotalFiles

\* C29 as stated: the callback is called once per candidate with a count,
\* the number of candidates and the candidate's path, and over the call the
\* count reaches the number of candidates.
C29_CallbackCountReachesTotal ==
    /\ crawl.status = "running" =>
         \A k \in DOMAIN tasks :
           /\ Len(tasks[k].calls) = 1
           /\ tasks[k].calls[1][2] = TotalFiles
           /\ tasks[k].calls[1][3] = tasks[k].path
    /\ LastBatch => \E k \in DOMAIN tasks : tasks[k].calls[1][1] = TotalFiles

\* C29 amended: the callback is called exactly once per candidate, as the
\* first step of the candidate, with the candidate's zero-based position in
\* the candidate list, the number of candidates and the candidate's path;
\* the position grows by one from each candidate to the next and stays
\* below the number of candidates.
C29_CallbackGetsPosition ==
    crawl.status = "running" =>
      \A k \in DOMAIN tasks :
        /\ tasks[k].calls = << << crawl.i + k - 1, TotalFiles,
                                  crawl.pendingFiles[crawl.i + k] >> >>
        /\ tasks[k].calls[1][1] < TotalFiles

\* the last of three candidates has been dispatched: its callback was told
\* position 2 of 3
C29_Witness ==
    /\ LastBatch
    /\ TotalFiles = 3
    /\ \E k \in DOMAIN tasks : tasks[k].calls = << << 2, 3, "d/c.txt" >> >>


\* C30: in an incremental call no candidate's file is read more than once,
\* and the digest a candidate is about to save is the digest of the content
\* it emits.
C30_ContentIsReadOnceAndDigestIsOfEmitted ==
    (crawl.status = "running" /\ Incremental) =>
      \A k \in DOMAIN tasks :
        /\ tasks[k].reads <= 1
        /\ tasks[k].pc \in { "writeFile", "write" } =>
             tasks[k].cache[crawl.workspaceId][tasks[k].path].hash
               = Hash(tasks[k].data)


(***************************************************************************)
(* Claims about the ProgressManager under any order of calls, checked      *)
(* under SpecStages.                                                       *)
(***************************************************************************)
\* C31: whatever calls are made and whatever percentages are passed, below
\* 0 and above 100 included, every recorded stage percentage lies in 0..100
\* and the aggregate lies in 0..100.
C31_PercentagesStayInRange ==
    /\ \A s \in StageSet : stageProgress[s] >= 0 /\ stageProgress[s] <= 100
    /\ totalProgress >= 0
    /\ totalProgress <= Full

\* percentages outside 0..100 have been passed, a stage was started again
\* out of order, and one stage stands at 100 beside one at 0
C31_Witness ==
    /\ outOfRange
    /\ lowerings = 1
    /\ currentStage = "Initializing"
    /\ stageProgress["Initializing"] = 0
    /\ stageProgress["Fetching Files"] = 100


\* C32: with a sink attached since the run began, whatever the order of the
\* calls, the increments the sink has received add up to the aggregate, and
\* so to no more than 100.
C32_IncrementsAddUpToAggregate ==
    (progress /\ ~unsunk) =>
        /\ sumTicks = totalProgress
        /\ sumTicks <= Full


\* the stored aggregate is the weighted mean of the recorded percentages
\* (both sides scaled by the sum of the weights)
Consistent == totalProgress = WeightedSum(stageProgress, Len(ProcessStage))

\* nothing but the percentage of the COMPLETED stage changes in the step
OnlyCompletedChanges ==
    \A s \in StageSet \ { "Completed" } : stageProgress'[s] = stageProgress[s]

\* C33 as stated: in every state, right after startStage too, the stored
\* aggregate is the weighted mean of the recorded percentages, and a step
\* that changes the percentage of the COMPLETED stage only leaves the
\* aggregate as it is.
C33_AggregateAlwaysWeightedMean ==
    /\ []Consistent
    /\ [][OnlyCompletedChanges => totalProgress' = totalProgress]_vars

\* C33 amended: the stored aggregate is the weighted mean right after every
\* updateStageProgress, completeStage and reset, and it stays so across a
\* startStage of a stage whose percentage is 0; a startStage of a stage
\* whose percentage is above 0 leaves the stored aggregate stale.  From a
\* state whose aggregate is not stale, a step that changes the percentage of
\* the COMPLETED stage only leaves the aggregate as it is.
C33_AggregateWeightedMeanUnlessStageRestarted ==
    /\ [][ ((\E percentage \in Percents : updateStageProgress(percentage))
              \/ completeStage \/ reset) => Consistent' ]_vars
    /\ [][ \A stage \in StageSet :
             (startStage(stage) /\ Consistent) =>
                (Consistent' <=> (stageProgress[stage] = 0
                                   \/ STAGE_WEIGHTS[stage] = 0)) ]_vars
    /\ [][ (Consistent /\ OnlyCompletedChanges)
             => totalProgress' = totalProgress ]_vars

\* the COMPLETED stage was started and updated while an earlier stage stood
\* at 50: the aggregate is that stage's share and nothing more
C33_Witness ==
    /\ currentStage = "Completed"
    /\ stageProgress["Completed"] = 100
    /\ stageProgress["Initializing"] = 50
    /\ stageProgress["Fetching Files"] = 0
    /\ totalProgress = 50 * STAGE_WEIGHTS["Initializing"]
    /\ lowerings = 0


(***************************************************************************)
(* The sweep next to a crawl, checked under SpecSweep.                     *)
(***************************************************************************)
\* the updateFileHash of the crawl's one candidate has returned normally
Recorded ==
    /\ crawl.status = "returned" /\ crawl.inited
    /\ outcome["a.txt"] = "emitted"

\* C34: a sweep that runs next to the updateFileHash calls of a crawl loses
\* no entry that is within maxAge: once the sweep and the crawl have both
\* ended, the entry of every file whose updateFileHash returned is in the
\* cache file
C34_SweepLosesNoRecordedEntry ==
    (call.op = "cleanupFileHashCache" /\ call.pc = "done" /\ Recorded)
        => /\ Indexable(readFileHashCache)
           /\ HasEntry(Loaded, "repo", "a.txt")

(***************************************************************************)
(* The shape of the persisted cache, checked under SpecStore.              *)
(***************************************************************************)
\* every workspace key of the cache file has at least one entry under it
NoEmptyWorkspace ==
    \A m \in cacheFile.json :
        Len(m) = 1 => \E e \in cacheFile.json : Len(e) = 4 /\ e[1] = m[1]

\* C35: updateFileHash and cleanupFileHashCache keep the cache file free of
\* workspace keys with an empty mapping: called on a cache file that has none
\* (no file, an empty file, or a document whose workspaces all hold entries),
\* each of them leaves a cache file that has none, so no sequence of them
\* produces one.
C35_NoEmptyWorkspaceIsPersisted ==
    [][ ( /\ NoEmptyWorkspace
          /\ \/ \E filePath \in StoreFiles, given \in ContentArgs :
                   updateFileHash("w1", filePath, given)
             \/ \E maxAgeMs \in MaxAges : cleanupFileHashCache(maxAgeMs) )
        => NoEmptyWorkspace' ]_vars

\* a sweep has removed the only entry of a workspace and saved a document
\* without that workspace
C35_Witness ==
    /\ call.op = "cleanupFileHashCache" /\ call.inited /\ call.n = 1
    /\ cacheFile = JSONstringify(EmptyCache)

(***************************************************************************)
(* The result of a call against its candidates, checked under SpecCalls.   *)
(***************************************************************************)
\* the positions in pendingFiles whose candidate ended in one of these ways
Ending(ways) ==
    { n \in 1..Len(crawl.pendingFiles) : outcome[crawl.pendingFiles[n]] \in ways }

\* the position of a path in pendingFiles
Position(path) ==
    CHOOSE n \in 1..Len(crawl.pendingFiles) : crawl.pendingFiles[n] = path

\* C36: when a call returns, every candidate has ended in exactly one way:
\* in files, counted as unchanged, skipped for its size, or dropped on an
\* error (of the file, of the cache, or thrown by the callback).  files has
\* one element per emitted candidate and unchangedCount counts the unchanged
\* ones, so their sum is at most the number of candidates; no path is twice
\* in files, and files is in the order of pendingFiles.
C36_EachCandidateEndsOnce ==
    crawl.status = "returned" =>
        LET files == crawl.filesList
            pending == crawl.pendingFiles
        IN  /\ \A m, n \in 1..Len(pending) : pending[m] = pending[n] => m = n
            /\ Ending({ "emitted", "unchanged", "oversize", "error", "cache",
                        "callback" }) = 1..Len(pending)
            /\ Cardinality(Ending({ "emitted" })) = Len(files)
            /\ Cardinality(Ending({ "unchanged" })) = crawl.unchangedCount
            /\ Len(files) + crawl.unchangedCount <= Len(pending)
            /\ \A n \in 1..Len(files) :
                  /\ \E m \in 1..Len(pending) : pending[m] = files[n].path
                  /\ outcome[files[n].path] = "emitted"
            /\ \A m, n \in 1..Len(files) :
                  m < n => Position(files[m].path) < Position(files[n].path)

\* a call over three candidates has returned the first and the third in that
\* order and counted the second as unchanged
C36_Witness ==
    /\ crawl.status = "returned"
    /\ crawl.pendingFiles = << ".gitignore", "a.txt", "d/c.txt" >>
    /\ outcome["a.txt"] = "unchanged" /\ crawl.unchangedCount = 1
    /\ Len(crawl.filesList) = 2
    /\ crawl.filesList[1].path = ".gitignore"
    /\ crawl.filesList[2].path = "d/c.txt"

(***************************************************************************)
(* Termination of a call, checked under SpecWalkFair.                      *)
(***************************************************************************)
InProgress == crawl.status \in { "collecting", "running" }

NoDirectoryListedTwice ==
    \A m, n \in 1..Len(crawl.visits) : crawl.visits[m] = crawl.visits[n] => m = n

EveryCandidateHandledOnce ==
    crawl.status = "returned" =>
        /\ \A m, n \in 1..Len(crawl.pendingFiles) :
              crawl.pendingFiles[m] = crawl.pendingFiles[n] => m = n
        /\ \A n \in 1..Len(crawl.pendingFiles) : outcome[crawl.pendingFiles[n]] # "none"

\* the part of C37 about the end of a call: a call in progress ends, by
\* returning or by throwing
CallEnds == InProgress ~> (crawl.status \in { "returned", "failed" })

\* C37: on every finite tree a call of crawlLocalFilesAsync ends, returning
\* a result or throwing an error, with every candidate handled once, and
\* collectFilePaths lists no directory twice.
C37_CallEndsAndListsEachDirectoryOnce ==
    /\ CallEnds
    /\ []EveryCandidateHandledOnce
    /\ []NoDirectoryListedTwice

(***************************************************************************)
(* The saves of a batch, checked under SpecSaves.                          *)
(***************************************************************************)
\* the cache file holds a whole document: a file that a save has opened and
\* not yet written holds the empty text
WholeDocument == cacheFile.kind = "json"

\* the entry an earlier session left for b.txt, which no batch records
EarlierEntryKept ==
    /\ cacheFile.kind = "json"
    /\ HasEntry(Parsed(cacheFile.json), "repo", "b.txt")

\* C38: while the saves of a batch write the one temporary file and rename
\* it, the real cache path holds at every moment a whole document, and once
\* the saves have completed the entry persisted before the batch for a file
\* the batch does not record is still there.
C38_RealPathWholeAndEarlierEntryKept ==
    /\ WholeDocument
    /\ (crawl.status = "returned" /\ tasks = NoTasks) => EarlierEntryKept
====
